---- MODULE Spec2Model ----
(***************************************************************************)
(* Model of sevaht_utility: hinting.py (iterate_types, verified_cast,      *)
(* get_callable_argument_hints) and parsing.py (StringParser, csv_load).   *)
(*                                                                         *)
(* and naming.py (convert_name).                                           *)
(*                                                                         *)
(* The specifications share the variables below:                           *)
(*   SpecPure      the pure functions, applied to inputs drawn in Init     *)
(*   SpecRegistry  one StringParser instance and its converter registry    *)
(*   SpecCsv       one csv_load generator, from creation to exhaustion     *)
(*   SpecProcess   the StringParser instances of one process               *)
(*   SpecThreads   threads calling into one StringParser instance          *)
(*   SpecSource    one csv_load generator and the stream it reads          *)
(*   SpecLoad      one csv_load generator and registrations during it      *)
(*   SpecText      json5_load and convert_name, applied to texts           *)
(*   SpecLookups   one registry and what converters() returned first       *)
(*   SpecDrop      one csv_load generator with fields that have no column  *)
(* A specification leaves the variables of the others at their idle value. *)
(***************************************************************************)
EXTENDS Integers, Sequences, FiniteSets

VARIABLES
    call,        \* SpecPure: the pure call under examination (its arguments)
    ret,         \* SpecPure: what the call produced (NotCalled before it ran)
    CONVERTERS,  \* StringParser._CONVERTERS: type name -> converter name
    last,        \* SpecRegistry: the last registry operation and what it saw
    csv,         \* SpecCsv: the generator frame of one csv_load call
    parsers,     \* SpecProcess: the _CONVERTERS of every StringParser made
    default_cache, \* SpecProcess: what @cache holds for StringParser.default
    lock,        \* SpecThreads: the thread that holds _CONVERTER_LOCK
    threads,     \* SpecThreads: the frame of each thread's call
    source_io    \* SpecSource: the stream csv_load reads and who opened it

process_vars == <<parsers, default_cache>>
thread_vars == <<lock, threads>>
vars == <<call, ret, CONVERTERS, last, csv, process_vars, thread_vars, source_io>>

(***************************************************************************)
(* Bounds of the model.                                                    *)
(***************************************************************************)
MaxLeaves == 3      \* leaves of the type specifications given to hinting
MaxParams == 2      \* declared parameters of a callable
MaxPairs == 3       \* (converter, owning_type) pairs given to a conversion

(***************************************************************************)
(* Type specifications.  A plain type is a leaf; a union carries the       *)
(* sequence get_args() returns for it.                                     *)
(***************************************************************************)
Leaf(name) == [k |-> "type", n |-> name, args |-> <<>>]
UnionOf(members) == [k |-> "union", n |-> "Union", args |-> members]

\* isinstance(current, UnionType) or get_origin(current) is Union
IsUnion(t) == t.k = "union"
get_args(t) == t.args

\* The classes of the model and their method resolution order.
\* bool is a subclass of int (as in Python); every class derives from object.
ClassNames == {"int", "bool", "str", "object"}
TypeNames == ClassNames \cup {"Any"}
mro(c) ==
    CASE c = "bool" -> {"bool", "int", "object"}
      [] c = "int" -> {"int", "object"}
      [] c = "float" -> {"float", "object"}
      [] c = "str" -> {"str", "object"}
      [] c = "Custom" -> {"Custom", "object"}
      [] c = "FromMethod" -> {"FromMethod", "object"}
      [] OTHER -> {"object"}

RECURSIVE TreesOver(_, _), ForestsOver(_, _)
\* Every type specification with exactly n leaves drawn from names: a leaf,
\* or a union of two or more specifications.
TreesOver(names, n) ==
    IF n = 1 THEN {Leaf(x) : x \in names}
    ELSE UNION {{UnionOf(<<t>> \o f) : t \in TreesOver(names, j),
                                       f \in ForestsOver(names, n - j)}
                : j \in 1..(n - 1)}
\* Every sequence of type specifications with n leaves in total.
ForestsOver(names, n) ==
    IF n = 0 THEN {<<>>}
    ELSE UNION {{<<t>> \o f : t \in TreesOver(names, j),
                              f \in ForestsOver(names, n - j)} : j \in 1..n}

TypeSpecs == UNION {TreesOver(TypeNames, n) : n \in 1..MaxLeaves}
TypeSpecSeqs == UNION {ForestsOver(TypeNames, n) : n \in 0..MaxLeaves}

(***************************************************************************)
(* hinting.iterate_types                                                   *)
(***************************************************************************)
RECURSIVE reversed(_)
reversed(s) == IF s = <<>> THEN <<>> ELSE Append(reversed(Tail(s)), Head(s))

RECURSIVE extendleft(_, _)
\* deque.extendleft: each item of the iterable, in turn, is pushed on the left
extendleft(dq, items) ==
    IF items = <<>> THEN dq
    ELSE extendleft(<<Head(items)>> \o dq, Tail(items))

\* the plausible slip: extendleft(get_args(current)) without reversed()
extendleft_args_unreversed(stack, current) == extendleft(stack, get_args(current))
push_union_members(stack, current) == extendleft(stack, reversed(get_args(current)))

RECURSIVE iterate_types_loop(_, _, _)
\* the while loop: the deque, the seen set, and the types yielded so far
iterate_types_loop(stack, seen, out) ==
    IF stack = <<>> THEN out
    ELSE LET current == Head(stack)
             rest == Tail(stack)
         IN  IF IsUnion(current)
             THEN iterate_types_loop(push_union_members(rest, current), seen, out)
             ELSE IF current \notin seen
                  THEN iterate_types_loop(rest, seen \cup {current},
                                          Append(out, current))
                  ELSE iterate_types_loop(rest, seen, out)

iterate_types(source_types) == iterate_types_loop(source_types, {}, <<>>)

(***************************************************************************)
(* Runtime values and call outcomes.  A value is its class and its repr;   *)
(* an outcome is a return of a value or a raise of an exception.           *)
(***************************************************************************)
Value(cls, repr) == [cls |-> cls, repr |-> repr]
NoType == Leaf("")
Return(v) == [kind |-> "return", exc |-> "", value |-> v, expected_type |-> NoType]
Raise(exc, v, expected) ==
    [kind |-> "raise", exc |-> exc, value |-> v, expected_type |-> expected]

\* 5, True, "ok", 1.2
CastValues == {Value("int", "5"), Value("bool", "True"),
               Value("str", "ok"), Value("float", "1.2")}

(***************************************************************************)
(* hinting.verified_cast                                                   *)
(***************************************************************************)
\* the plausible slip: type(value) is candidate_type, which rejects subclasses
isinstance_exact(value, candidate_type) == candidate_type.n = value.cls
isinstance(value, candidate_type) == candidate_type.n \in mro(value.cls)

RECURSIVE verified_cast_loop(_, _, _)
verified_cast_loop(candidates, expected_type, value) ==
    IF candidates = <<>>
    THEN Raise("InvalidTypeError", value, expected_type)
    ELSE LET candidate_type == Head(candidates)
         IN  IF candidate_type.n \in {"Any", "object"}
                \/ isinstance(value, candidate_type)
             THEN Return(value)
             ELSE verified_cast_loop(Tail(candidates), expected_type, value)

verified_cast(expected_type, value) ==
    verified_cast_loop(iterate_types(<<expected_type>>), expected_type, value)

\* parsing.py imports verify_type from hinting; hinting.py defines the
\* Verified Caster under the name verified_cast only.
verify_type(expected_type, value) == verified_cast(expected_type, value)

(***************************************************************************)
(* hinting.get_callable_argument_hints                                     *)
(*                                                                         *)
(* A callable is a function, a dataclass or a plain class.  params are the *)
(* parameters of the function, or of the class's __init__ without self;    *)
(* body are the annotations in the class body that are no __init__         *)
(* parameter of a dataclass (init=False fields), or all the class-level    *)
(* annotations of a plain class.                                           *)
(***************************************************************************)
NoAnn == [wrap |-> "none", t |-> ""]
Plain(t) == [wrap |-> "plain", t |-> t]
InitVar(t) == [wrap |-> "InitVar", t |-> t]
Param(name, ann) == [name |-> name, ann |-> ann]
\* typing.Any as a hint, and the .type attribute of an InitVar instance
typing_Any == Plain("Any")
InitVar_type(member_type) == Plain(member_type.t)

ParamNames == {"a", "b", "c"}
ParamAnns == {NoAnn, Plain("int"), InitVar("float")}

RECURSIVE ParamSeqs(_, _, _)
\* sequences of at most n parameters with distinct names
ParamSeqs(names, anns, n) ==
    IF n = 0 THEN {<<>>}
    ELSE {<<>>} \cup
         UNION {{<<Param(x, a)>> \o rest :
                    a \in anns, rest \in ParamSeqs(names \ {x}, anns, n - 1)}
                : x \in names}

Callable(kind, params, returns, body) ==
    [kind |-> kind, params |-> params, returns |-> returns, body |-> body]

Callables ==
    {Callable("function", ps, r, <<>>) :
        ps \in ParamSeqs(ParamNames, ParamAnns, MaxParams),
        r \in {NoAnn, Plain("bool")}}
    \cup
    {Callable("dataclass", ps, NoAnn, b) :
        ps \in ParamSeqs(ParamNames, ParamAnns \ {NoAnn}, MaxParams),
        b \in {<<>>, <<Param("z", Plain("str"))>>}}
    \cup
    {Callable("class", ps, NoAnn, b) :
        ps \in ParamSeqs(ParamNames, ParamAnns, MaxParams),
        b \in {<<>>, <<Param("a", Plain("str"))>>}}

NamesOf(ps) == {ps[i].name : i \in 1..Len(ps)}

\* inspect.signature(function).parameters, in declaration order
signature_parameters(function) ==
    [i \in 1..Len(function.params) |-> function.params[i].name]

\* typing.get_type_hints(function): for a function its annotated parameters
\* and its return annotation; for a class the annotations of the class body
\* (a dataclass declares its __init__ parameters there, a plain class does
\* not: the annotations of its __init__ are not consulted)
get_type_hints(function) ==
    LET annotated == {i \in 1..Len(function.params) :
                         function.params[i].ann.wrap # "none"}
        of_params == {<<function.params[i].name, function.params[i].ann>> :
                         i \in annotated}
        of_body == {<<function.body[i].name, function.body[i].ann>> :
                         i \in 1..Len(function.body)}
        of_return == IF function.returns.wrap = "none" THEN {}
                     ELSE {<<"return", function.returns>>}
        pairs == CASE function.kind = "function" -> of_params \cup of_return
                   [] function.kind = "dataclass" -> of_params \cup of_body
                   [] OTHER -> of_body
    IN  [m \in {p[1] : p \in pairs} |->
            (CHOOSE p \in pairs : p[1] = m)[2]]

get_callable_argument_hints(function) ==
    LET hints == get_type_hints(function)
        type_hints == [member \in DOMAIN hints |->
                         IF hints[member].wrap # "InitVar"
                         THEN hints[member]
                         ELSE InitVar_type(hints[member])]
        parameters == signature_parameters(function)
        members == {parameters[i] : i \in 1..Len(parameters)} \ {"return"}
    IN  [member \in members |->
            IF member \in DOMAIN type_hints THEN type_hints[member] ELSE typing_Any]

(***************************************************************************)
(* String converters.  A converter is known by its name; apply_converter   *)
(* is what calling it on a string does.                                    *)
(***************************************************************************)
\* the strings of the model: cells of a source, inputs of a conversion
Strings == {"7", "Yes", "text"}
IntLiterals == {"7", "1", "2", "3"}
FloatLiterals == {"7", "1", "2", "3"}
lower(s) == IF s = "Yes" THEN "yes" ELSE s

parse_bool(value) ==
    Return(Value("bool", IF lower(value) \in {"1", "true", "yes"}
                         THEN "True" ELSE "False"))

\* str, int, float: the built-ins; parse_bool; fail_conv raises ValueError;
\* custom_conv builds a Custom; from_string is FromMethod.from_string, which
\* is cls(int(value)); exit_conv is a converter that raises SystemExit
apply_converter(converter, source) ==
    CASE converter = "str" -> Return(Value("str", source))
      [] converter = "int" ->
            IF source \in IntLiterals THEN Return(Value("int", source))
            ELSE Raise("ValueError", Value("str", source), NoType)
      [] converter = "float" ->
            IF source \in FloatLiterals THEN Return(Value("float", source))
            ELSE Raise("ValueError", Value("str", source), NoType)
      [] converter = "parse_bool" -> parse_bool(source)
      [] converter = "custom_conv" -> Return(Value("Custom", source))
      [] converter = "from_string" ->
            IF source \in IntLiterals THEN Return(Value("FromMethod", source))
            ELSE Raise("ValueError", Value("str", source), NoType)
      [] converter = "exit_conv" ->
            Raise("SystemExit", Value("str", source), NoType)
      [] OTHER -> Raise("ValueError", Value("str", source), NoType)

\* the exceptions an `except Exception` clause does not catch
BaseExceptionsOnly == {"KeyboardInterrupt", "SystemExit", "GeneratorExit"}
\* the plausible slip: a bare except, which catches BaseException as well
caught_by_bare_except(exc) == TRUE
caught_by_except_Exception(exc) == exc \notin BaseExceptionsOnly

(***************************************************************************)
(* StringParser.first_valid_conversion.  invoked logs the positions of the *)
(* pairs whose converter was called, in call order.                        *)
(***************************************************************************)
Attempt(outcome, invoked) == [out |-> outcome, invoked |-> invoked]

\* the plausible slip: return converter(source) without the verified cast
convert_unverified(pair, source) == apply_converter(pair[1], source)
\* the try body of one pair: verify_type(converter_type, converter(source))
convert_and_verify(pair, source) ==
    LET converted == apply_converter(pair[1], source)
    IN  IF converted.kind = "raise" THEN converted
        ELSE verify_type(Leaf(pair[2]), converted.value)

RECURSIVE first_valid_conversion_loop(_, _, _, _)
first_valid_conversion_loop(source, converters, i, invoked) ==
    IF i > Len(converters)
    THEN Attempt(Raise("StringParserError", Value("str", source), NoType),
                 invoked)
    ELSE LET tried == convert_and_verify(converters[i], source)
         IN  IF tried.kind = "return"
             THEN Attempt(tried, Append(invoked, i))
             ELSE IF caught_by_except_Exception(tried.exc)
                  THEN first_valid_conversion_loop(source, converters, i + 1,
                                                   Append(invoked, i))
                  ELSE Attempt(tried, Append(invoked, i))

first_valid_conversion(source, converters) ==
    first_valid_conversion_loop(source, converters, 1, <<>>)

(***************************************************************************)
(* SpecPure: a pure function applied once to arguments drawn in Init.      *)
(***************************************************************************)
NotCalled == [op |-> "none"]
IdleRegistry == <<>>
IdleLast == [op |-> "none"]
IdleCsv == [pc |-> "idle"]
IdleProcess == /\ parsers = <<>>
               /\ default_cache = "idle"
IdleThreads == /\ lock = "idle"
               /\ threads = <<>>
IdleSource == source_io = [state |-> "idle"]

PairConverters == {"int", "str", "fail_conv", "exit_conv"}
PairTypes == {"int", "str"}
RECURSIVE PairSeqs(_)
\* the lists of at most n (converter, owning_type) pairs
PairSeqs(n) ==
    IF n = 0 THEN {<<>>}
    ELSE {<<>>} \cup {<<<<c, t>>>> \o rest :
                        c \in PairConverters, t \in PairTypes,
                        rest \in PairSeqs(n - 1)}

InitPure ==
    /\ \/ \E f \in TypeSpecSeqs :
            call = [op |-> "iterate_types", source_types |-> f]
       \/ \E t \in TypeSpecs, v \in CastValues :
            call = [op |-> "verified_cast", expected_type |-> t, value |-> v]
       \/ \E c \in Callables :
            call = [op |-> "get_callable_argument_hints", function |-> c]
       \/ \E s \in Strings, ps \in PairSeqs(MaxPairs) :
            call = [op |-> "first_valid_conversion", source |-> s,
                    converters |-> ps]
    /\ ret = NotCalled
    /\ CONVERTERS = IdleRegistry
    /\ last = IdleLast
    /\ csv = IdleCsv
    /\ IdleProcess
    /\ IdleThreads
    /\ IdleSource

Call_iterate_types ==
    /\ call.op = "iterate_types"
    /\ ret = NotCalled
    /\ ret' = [op |-> call.op, out |-> iterate_types(call.source_types)]
    /\ UNCHANGED <<call, CONVERTERS, last, csv,
                 process_vars, thread_vars, source_io>>

Call_verified_cast ==
    /\ call.op = "verified_cast"
    /\ ret = NotCalled
    /\ ret' = [op |-> call.op,
               out |-> verified_cast(call.expected_type, call.value)]
    /\ UNCHANGED <<call, CONVERTERS, last, csv,
                 process_vars, thread_vars, source_io>>

Call_get_callable_argument_hints ==
    /\ call.op = "get_callable_argument_hints"
    /\ ret = NotCalled
    /\ ret' = [op |-> call.op,
               out |-> get_callable_argument_hints(call.function)]
    /\ UNCHANGED <<call, CONVERTERS, last, csv,
                 process_vars, thread_vars, source_io>>

Call_first_valid_conversion ==
    /\ call.op = "first_valid_conversion"
    /\ ret = NotCalled
    /\ LET attempt == first_valid_conversion(call.source, call.converters)
       IN  ret' = [op |-> call.op, out |-> attempt.out,
                   invoked |-> attempt.invoked]
    /\ UNCHANGED <<call, CONVERTERS, last, csv,
                 process_vars, thread_vars, source_io>>

NextPure ==
    \/ Call_iterate_types
    \/ Call_verified_cast
    \/ Call_get_callable_argument_hints
    \/ Call_first_valid_conversion

SpecPure == InitPure /\ [][NextPure]_vars

(***************************************************************************)
(* StringParser: the converter registry of one instance.  _CONVERTERS is a *)
(* dict: a function whose domain is the set of its keys.  Both converters  *)
(* and set_converter run under _CONVERTER_LOCK from their first to their   *)
(* last registry access, so each is one step.                              *)
(***************************************************************************)
None == "None"
dict_get(d, key) == IF key \in DOMAIN d THEN d[key] ELSE None
\* the plausible slip: d.setdefault(key, value), which keeps an earlier entry
dict_setdefault(d, key, value) ==
    [x \in DOMAIN d \cup {key} |-> IF x \in DOMAIN d THEN d[x] ELSE value]
dict_setitem(d, key, value) ==
    [x \in DOMAIN d \cup {key} |-> IF x = key THEN value ELSE d[x]]

\* {Any: str, str: str, int: int, float: float, bool: parse_bool}
default_string_converters ==
    [t \in {"Any", "str", "int", "float", "bool"} |->
        CASE t = "int" -> "int"
          [] t = "float" -> "float"
          [] t = "bool" -> "parse_bool"
          [] OTHER -> "str"]

\* callable(getattr(candidate_type, "from_string", None)): of the classes of
\* the model only FromMethod defines the classmethod
has_from_string(candidate_type) == candidate_type.n = "FromMethod"

Resolved(registry, found) == [registry |-> registry, converters |-> found]

RECURSIVE converters_loop_until_unknown(_, _, _)
\* the plausible slip: the loop ends at the first candidate without a
\* converter
converters_loop_until_unknown(candidates, registry, found) ==
    IF candidates = <<>> THEN Resolved(registry, found)
    ELSE IF /\ dict_get(registry, Head(candidates).n) = None
            /\ ~has_from_string(Head(candidates))
         THEN Resolved(registry, found)
    ELSE converters_loop_until_unknown(Tail(candidates),
             dict_setdefault(registry, Head(candidates).n, "from_string"),
             Append(found,
                    <<dict_setdefault(registry, Head(candidates).n,
                                      "from_string")[Head(candidates).n],
                      Head(candidates).n>>))

RECURSIVE converters_loop_rediscovering(_, _, _)
\* the plausible slip: from_string is looked up before the registry
converters_loop_rediscovering(candidates, registry, found) ==
    IF candidates = <<>> THEN Resolved(registry, found)
    ELSE IF has_from_string(Head(candidates))
         THEN converters_loop_rediscovering(Tail(candidates),
                  dict_setitem(registry, Head(candidates).n, "from_string"),
                  Append(found, <<"from_string", Head(candidates).n>>))
    ELSE converters_loop_rediscovering(Tail(candidates), registry,
             IF dict_get(registry, Head(candidates).n) # None
             THEN Append(found, <<dict_get(registry, Head(candidates).n),
                                  Head(candidates).n>>)
             ELSE found)

RECURSIVE converters_loop(_, _, _)
\* the for loop of StringParser.converters: the candidates left, the
\* registry, and the (converter, type) pairs appended so far
converters_loop(candidates, registry, found) ==
    IF candidates = <<>> THEN Resolved(registry, found)
    ELSE LET candidate_type == Head(candidates)
             known == dict_get(registry, candidate_type.n)
             discover == known = None /\ has_from_string(candidate_type)
             converter == IF discover THEN "from_string" ELSE known
             registry2 == IF discover
                          THEN dict_setitem(registry, candidate_type.n,
                                            "from_string")
                          ELSE registry
         IN  converters_loop(Tail(candidates), registry2,
                             IF converter # None
                             THEN Append(found, <<converter, candidate_type.n>>)
                             ELSE found)

converters(registry, target) ==
    converters_loop(iterate_types(<<target>>), registry, <<>>)

RECURSIVE set_converter_loop(_, _, _)
set_converter_loop(candidates, registry, converter) ==
    IF candidates = <<>> THEN registry
    ELSE set_converter_loop(Tail(candidates),
                            dict_setitem(registry, Head(candidates).n,
                                         converter),
                            converter)

set_converter(registry, target, converter) ==
    set_converter_loop(iterate_types(<<target>>), registry, converter)

\* the targets and converters the callers of the model pass to the registry
\* (a union object holds two or more distinct members, flattened)
TargetNames == {"int", "Custom", "FromMethod"}
RECURSIVE DistinctSeqs(_)
DistinctSeqs(names) ==
    {<<>>} \cup UNION {{<<Leaf(x)>> \o rest :
                           rest \in DistinctSeqs(names \ {x})} : x \in names}
Targets ==
    {Leaf(x) : x \in TargetNames}
    \cup {UnionOf(members) :
             members \in {m \in DistinctSeqs(TargetNames) : Len(m) >= 2}}
UserConverters == {"custom_conv", "fail_conv"}

InitRegistry ==
    /\ CONVERTERS = default_string_converters
    /\ last = IdleLast
    /\ call = NotCalled
    /\ ret = NotCalled
    /\ csv = IdleCsv
    /\ IdleProcess
    /\ IdleThreads
    /\ IdleSource

\* string_parser.converters(target)
Do_converters ==
    \E target \in Targets :
        LET resolved == converters(CONVERTERS, target)
        IN  /\ CONVERTERS' = resolved.registry
            /\ last' = [op |-> "converters", target |-> target,
                        converter |-> None, source |-> "",
                        before |-> CONVERTERS,
                        found |-> resolved.converters,
                        out |-> Return(Value("NoneType", "None"))]
            /\ UNCHANGED <<call, ret, csv,
                 process_vars, thread_vars, source_io>>

\* string_parser.set_converter(target, converter=converter)
Do_set_converter ==
    \E target \in Targets, converter \in UserConverters :
        /\ CONVERTERS' = set_converter(CONVERTERS, target, converter)
        /\ last' = [op |-> "set_converter", target |-> target,
                    converter |-> converter, source |-> "",
                    before |-> CONVERTERS, found |-> <<>>,
                    out |-> Return(Value("NoneType", "None"))]
        /\ UNCHANGED <<call, ret, csv,
                 process_vars, thread_vars, source_io>>

\* string_parser.parse(source, target=target)
Do_parse ==
    \E target \in Targets, source \in Strings :
        LET resolved == converters(CONVERTERS, target)
            attempt == first_valid_conversion(source, resolved.converters)
        IN  /\ CONVERTERS' = resolved.registry
            /\ last' = [op |-> "parse", target |-> target,
                        converter |-> None, source |-> source,
                        before |-> CONVERTERS,
                        found |-> resolved.converters,
                        out |-> attempt.out]
            /\ UNCHANGED <<call, ret, csv,
                 process_vars, thread_vars, source_io>>

NextRegistry ==
    \/ Do_converters
    \/ Do_set_converter
    \/ Do_parse

SpecRegistry == InitRegistry /\ [][NextRegistry]_vars

(***************************************************************************)
(* csv_load: one call of the generator function.                           *)
(*                                                                         *)
(* rows are the rows csv.reader produces for the source, in order (the     *)
(* header row first when the source carries one).  Sequences are indexed   *)
(* from 1, so a column index is the Python index plus one.  Dicts whose    *)
(* iteration order matters are sequences of <<key, value>> items.  The     *)
(* mapping's name_style is None in this model, so fix_style returns its    *)
(* argument.                                                               *)
(***************************************************************************)
MaxRows == 2        \* data rows of a source

Some(v) == [some |-> TRUE, v |-> v]
Nothing == [some |-> FALSE, v |-> <<>>]
\* Python truth of an optional collection: neither None nor empty
truthy(x) == x.some /\ Len(x.v) > 0
\* x or y
or_else(x, y) == IF truthy(x) THEN x ELSE Some(y)

\* d[key] = value on a dict kept as items in insertion order
items_set(d, key, value) ==
    IF \E i \in 1..Len(d) : d[i][1] = key
    THEN [i \in 1..Len(d) |-> IF d[i][1] = key THEN <<key, value>> ELSE d[i]]
    ELSE Append(d, <<key, value>>)
RECURSIVE items_from(_, _)
\* a dict comprehension: the items are inserted one after the other
items_from(d, pairs) ==
    IF pairs = <<>> THEN d
    ELSE items_from(items_set(d, Head(pairs)[1], Head(pairs)[2]), Tail(pairs))
items_has(d, key) == \E i \in 1..Len(d) : d[i][1] = key
items_value(d, key) == d[CHOOSE i \in 1..Len(d) : d[i][1] = key][2]

fix_style(value) == value

\* the dataclass and the construction function callers of the model pass:
\*   @dataclass
\*   class Rec:
\*       a: int
\*       y: str = field(default="", metadata={"csv_key": "b"})
\*   def make(a: int, b): ...
\*   @dataclass
\*   class Tagged:
\*       a: int
\*       m: FromMethod = field(default_factory=...)
\* NotDC is a class that is not a dataclass.
Rec == Callable("dataclass",
                <<Param("a", Plain("int")), Param("y", Plain("str"))>>,
                NoAnn, <<>>)
make == Callable("function",
                 <<Param("a", Plain("int")), Param("b", NoAnn)>>, NoAnn, <<>>)
Tagged == Callable("dataclass",
                   <<Param("a", Plain("int")), Param("m", Plain("FromMethod"))>>,
                   NoAnn, <<>>)
NotDC == Callable("class", <<>>, NoAnn, <<>>)
CallableNamed(name) ==
    CASE name = "Rec" -> Rec
      [] name = "make" -> make
      [] name = "Tagged" -> Tagged
      [] OTHER -> NotDC
\* the plausible slip: the target is not checked
is_dataclass_unchecked(name) == TRUE
is_dataclass(name) == CallableNamed(name).kind = "dataclass"
\* dataclass.__dataclass_fields__[name].metadata.get(field_metadata_key, name)
metadata_get(dataclass, name) ==
    IF dataclass = "Rec" /\ name = "y" THEN "b" ELSE name
\* the parameters a call must pass
required_parameters(name) ==
    CASE name = "Rec" -> {"a"}
      [] name = "make" -> {"a", "b"}
      [] name = "Tagged" -> {"a"}
      [] OTHER -> {}

\* get_callable_argument_hints(function) as items, in parameter order
hints_items(name) ==
    LET function == CallableNamed(name)
        hints == get_callable_argument_hints(function)
        parameters == signature_parameters(function)
    IN  [i \in 1..Len(parameters) |-> <<parameters[i], hints[parameters[i]]>>]

\* the plausible slip: keep the first index of a repeated name
column_indices_first(column_names) ==
    LET names == {column_names[i] : i \in 1..Len(column_names)}
        first(n) == CHOOSE i \in 1..Len(column_names) :
                        /\ column_names[i] = n
                        /\ \A j \in 1..(i - 1) : column_names[j] # n
        order == items_from(<<>>, [i \in 1..Len(column_names) |->
                                      <<column_names[i], i>>])
    IN  [i \in 1..Len(order) |-> <<order[i][1], first(order[i][1])>>]
\* {name: i for i, name in enumerate(column_names)}: the last index wins
column_indices(column_names) ==
    items_from(<<>>, [i \in 1..Len(column_names) |-> <<column_names[i], i>>])

\* the type a field is converted to: type_hints.get(field_name, str)
hint_or_str(type_hints, field_name) ==
    IF items_has(type_hints, field_name)
    THEN Leaf(items_value(type_hints, field_name).t)
    ELSE Leaf("str")

Field(name, index, found) == [name |-> name, index |-> index, converters |-> found]

RECURSIVE resolve_fields_eagerly(_, _, _, _, _)
\* the plausible slip: the converters of a field are resolved before its
\* column is looked up, so a field that is dropped has been resolved too
resolve_fields_eagerly(mapping_items, indices, type_hints, registry, kept) ==
    IF mapping_items = <<>> THEN [fields |-> kept, registry |-> registry]
    ELSE LET field_name == Head(mapping_items)[1]
             column_name == Head(mapping_items)[2]
             resolved == converters(registry,
                                    hint_or_str(type_hints, field_name))
         IN  resolve_fields_eagerly(Tail(mapping_items), indices, type_hints,
                 resolved.registry,
                 IF items_has(indices, column_name)
                 THEN Append(kept, Field(field_name,
                                         items_value(indices, column_name),
                                         resolved.converters))
                 ELSE kept)

RECURSIVE resolve_fields(_, _, _, _, _)
\* the comprehension of field_to_index_and_converters: the items of
\* field_to_column_name left, the fields kept so far, and the registry, which
\* string_parser.converters may extend
resolve_fields(mapping_items, indices, type_hints, registry, kept) ==
    IF mapping_items = <<>> THEN [fields |-> kept, registry |-> registry]
    ELSE LET field_name == Head(mapping_items)[1]
             column_name == Head(mapping_items)[2]
         IN  IF items_has(indices, column_name)
             THEN LET resolved == converters(registry,
                                             hint_or_str(type_hints, field_name))
                  IN  resolve_fields(Tail(mapping_items), indices, type_hints,
                                     resolved.registry,
                                     Append(kept,
                                            Field(field_name,
                                                  items_value(indices, column_name),
                                                  resolved.converters)))
             ELSE resolve_fields(Tail(mapping_items), indices, type_hints,
                                 registry, kept)

\* the test that guards the column-subset error
fewer_fields_than_columns(fields, column_names) == Len(fields) < Len(column_names)

\* [name for i, name in enumerate(column_names) if i not in consumed_indices]
unconsumed_column_names(fields, column_names) ==
    LET consumed_indices == {fields[i].index : i \in 1..Len(fields)}
        kept == {i \in 1..Len(column_names) : i \notin consumed_indices}
        rank(i) == Cardinality({j \in kept : j <= i})
    IN  [r \in 1..Cardinality(kept) |->
            column_names[CHOOSE i \in kept : rank(i) = r]]

\* the plausible slip: StopIteration is not caught, and ends the generator
\* with RuntimeError
no_header_status_uncaught == "raise"
\* what next(reader) on an exhausted reader leads to while the header is
\* read: StopIteration is caught and the generator returns
no_header_status == "return"

\* the reader position of the first data row: the header row, when it is
\* read from the source, has been consumed by next(reader)
first_data_position_rereading_header(column_names_given) == 1
first_data_position(column_names_given) == IF column_names_given THEN 1 ELSE 2

SetupEnded(status, exc, registry) ==
    [status |-> status, exc |-> exc, column_names |-> <<>>, fields |-> <<>>,
     init_function |-> None, registry |-> registry, pos |-> 1,
     resolved |-> FALSE]

\* lines 311-331: the fields are resolved, then the column subset is judged
setup_fields(args, column_names, init_function, resolved) ==
    [status |-> IF /\ fewer_fields_than_columns(resolved.fields, column_names)
                   /\ ~args.allow_column_subset
                THEN "raise" ELSE "ok",
     exc |-> IF /\ fewer_fields_than_columns(resolved.fields, column_names)
                /\ ~args.allow_column_subset
             THEN "UnconsumedColumnsError" ELSE None,
     column_names |-> column_names,
     fields |-> resolved.fields,
     init_function |-> init_function,
     registry |-> resolved.registry,
     pos |-> first_data_position(args.column_names.some),
     resolved |-> TRUE]

\* lines 290-297 and 306-309: the mapping given or derived so far, else the
\* field names of the dataclass (by their csv_key metadata), else the columns
setup_mapping(args, registry, column_names, init_function, type_hints, mapping_of_init) ==
    setup_fields(args, column_names, init_function,
        resolve_fields(
            (IF args.dataclass # None
             THEN or_else(mapping_of_init,
                          items_from(<<>>,
                              [i \in 1..Len(type_hints) |->
                                  <<type_hints[i][1],
                                    fix_style(metadata_get(args.dataclass,
                                                           type_hints[i][1]))>>]))
             ELSE or_else(mapping_of_init,
                          items_from(<<>>,
                              [i \in 1..Len(column_names) |->
                                  <<column_names[i],
                                    fix_style(column_names[i])>>]))).v,
            column_indices(column_names), type_hints, registry, <<>>))

\* lines 283-305: the dataclass check, the construction function and the
\* type hints of either branch
setup_target(args, registry, column_names, hints_of_init, mapping_of_init) ==
    IF args.dataclass # None /\ ~is_dataclass(args.dataclass)
    THEN SetupEnded("raise", "NotADataclassError", registry)
    ELSE setup_mapping(args, registry, column_names,
             (IF args.init_function # None THEN args.init_function
              ELSE IF args.dataclass # None THEN args.dataclass ELSE "dict"),
             (IF args.dataclass # None
              THEN or_else(hints_of_init, hints_items(args.dataclass))
              ELSE or_else(hints_of_init, <<>>)).v,
             mapping_of_init)

\* lines 275-281: the hints and the identity mapping of an init_function
setup_init_function(args, registry, column_names, hints_of_init) ==
    setup_target(args, registry, column_names, hints_of_init,
        IF args.init_function # None
        THEN or_else(args.field_to_column_name,
                     [i \in 1..Len(hints_of_init.v) |->
                         <<hints_of_init.v[i][1],
                           fix_style(hints_of_init.v[i][1])>>])
        ELSE args.field_to_column_name)

\* csv_load from its first line to the line before `yield from`
csv_setup(args, registry) ==
    IF ~args.column_names.some /\ Len(args.rows) = 0
    THEN SetupEnded(no_header_status, "RuntimeError", registry)
    ELSE setup_init_function(args, registry,
             (IF args.column_names.some THEN args.column_names.v
              ELSE args.rows[1]),
             (IF args.init_function # None
              THEN Some(hints_items(args.init_function))
              ELSE Nothing))

Built(kind, exc, kwargs) == [kind |-> kind, exc |-> exc, kwargs |-> kwargs]

RECURSIVE build_kwargs(_, _, _)
\* the dict comprehension of one row: the fields left and the items so far
build_kwargs(row, fields, kwargs) ==
    IF fields = <<>> THEN Built("return", None, kwargs)
    ELSE LET field == Head(fields)
         IN  IF field.index > Len(row)
             THEN Built("raise", "IndexError", kwargs)
             ELSE LET attempt == first_valid_conversion(row[field.index],
                                                        field.converters)
                  IN  IF attempt.out.kind = "raise"
                      THEN Built("raise", attempt.out.exc, kwargs)
                      ELSE build_kwargs(row, Tail(fields),
                                        items_set(kwargs, field.name,
                                                  attempt.out.value))

\* init_function(**kwargs): dict takes any keywords; a dataclass or a
\* function raises TypeError for a missing or an unexpected keyword
call_init(init_function, kwargs) ==
    LET keys == {kwargs[i][1] : i \in 1..Len(kwargs)}
        accepted == NamesOf(CallableNamed(init_function).params)
    IN  IF \/ init_function = "dict"
           \/ (required_parameters(init_function) \subseteq keys
               /\ keys \subseteq accepted)
        THEN Built("return", None, kwargs)
        ELSE Built("raise", "TypeError", kwargs)

\* one element of the generator expression: the record of one row
\* called: whether init_function was called for the row
Element(built, called) ==
    [kind |-> built.kind, exc |-> built.exc, kwargs |-> built.kwargs,
     called |-> called]
csv_record(row, fields, init_function) ==
    LET built == build_kwargs(row, fields, <<>>)
    IN  IF built.kind = "raise" THEN Element(built, FALSE)
        ELSE Element(call_init(init_function, built.kwargs), TRUE)

(***************************************************************************)
(* SpecCsv: the arguments are drawn in Init; each step is one next() of    *)
(* the consumer on the generator.                                          *)
(***************************************************************************)
Headers == {<<>>, <<"a">>, <<"a", "b">>, <<"b", "a">>, <<"a", "a", "b">>,
            <<"a", "b", "b">>, <<"a", "b", "c">>}
DataRows == {<<"1", "2", "3">>, <<"x", "2", "z">>, <<"1">>}
RECURSIVE RowSeqs(_)
RowSeqs(n) ==
    IF n = 0 THEN {<<>>}
    ELSE {<<>>} \cup {<<r>> \o rest : r \in DataRows, rest \in RowSeqs(n - 1)}
FieldMappings ==
    {Nothing, Some(<<>>),
     Some(<<<<"x", "a">>, <<"y", "a">>>>),
     Some(<<<<"x", "a">>, <<"y", "b">>>>),
     Some(<<<<"a", "b">>, <<"b", "a">>>>),
     Some(<<<<"x", "a">>, <<"y", "q">>>>)}

CsvArgs ==
    {[rows |-> rows, column_names |-> column_names,
      field_to_column_name |-> mapping, dataclass |-> dataclass,
      init_function |-> init_function, allow_column_subset |-> allow] :
        rows \in RowSeqs(MaxRows),
        column_names \in {Some(h) : h \in Headers},
        mapping \in FieldMappings,
        dataclass \in {None, "Rec", "NotDC"},
        init_function \in {None, "make"},
        allow \in BOOLEAN}
    \cup
    {[rows |-> rows, column_names |-> Nothing,
      field_to_column_name |-> mapping, dataclass |-> dataclass,
      init_function |-> init_function, allow_column_subset |-> allow] :
        rows \in {<<>>} \cup {<<h>> \o data : h \in Headers,
                                              data \in RowSeqs(MaxRows)},
        mapping \in FieldMappings,
        dataclass \in {None, "Rec", "NotDC"},
        init_function \in {None, "make"},
        allow \in BOOLEAN}

InitCsv ==
    /\ \E args \in CsvArgs :
          csv = [pc |-> "created", args |-> args, pos |-> 1,
                 column_names |-> <<>>, fields |-> <<>>,
                 init_function |-> None, resolved |-> FALSE,
                 yielded |-> <<>>, error |-> None, init_calls |-> 0]
    /\ CONVERTERS = default_string_converters
    /\ last = IdleLast
    /\ call = NotCalled
    /\ ret = NotCalled
    /\ IdleProcess
    /\ IdleThreads
    /\ IdleSource

\* the plausible slip: a row that fails is skipped and the load goes on
csv_yield_or_skip(frame, record) ==
    IF record.kind = "raise"
    THEN [frame EXCEPT !.pc = "suspended", !.pos = frame.pos + 1]
    ELSE [frame EXCEPT !.pc = "suspended", !.pos = frame.pos + 1,
                       !.init_calls = @ + 1,
                       !.yielded = Append(frame.yielded,
                                          [cls |-> frame.init_function,
                                           kwargs |-> record.kwargs])]
\* the generator runs from its reader position to its next yield, to its
\* return, or to the exception that ends it
csv_yield_or_raise(frame, record) ==
    IF record.kind = "raise"
    THEN [frame EXCEPT !.pc = "raised", !.error = record.exc,
                       !.pos = frame.pos + 1,
                       !.init_calls = @ + (IF record.called THEN 1 ELSE 0)]
    ELSE [frame EXCEPT !.pc = "suspended", !.pos = frame.pos + 1,
                       !.init_calls = @ + 1,
                       !.yielded = Append(frame.yielded,
                                          [cls |-> frame.init_function,
                                           kwargs |-> record.kwargs])]

csv_advance(frame) ==
    IF frame.pos > Len(frame.args.rows)
    THEN [frame EXCEPT !.pc = "done"]
    ELSE csv_yield_or_raise(frame,
             csv_record(frame.args.rows[frame.pos], frame.fields,
                        frame.init_function))

\* the frame once the setup has run
csv_entered(frame, setup) ==
    [frame EXCEPT !.column_names = setup.column_names,
                  !.fields = setup.fields,
                  !.init_function = setup.init_function,
                  !.resolved = setup.resolved,
                  !.pos = setup.pos]

csv_started(frame, setup) ==
    CASE setup.status = "return" -> [frame EXCEPT !.pc = "done"]
      [] setup.status = "raise" ->
            [frame EXCEPT !.pc = "raised", !.error = setup.exc]
      [] OTHER -> csv_advance(frame)

csv_first_effect(setup) ==
    /\ CONVERTERS' = setup.registry
    /\ csv' = csv_started(csv_entered(csv, setup), setup)

\* the first next(): the setup, then the first row
csv_first_next ==
    /\ csv.pc = "created"
    /\ csv_first_effect(csv_setup(csv.args, CONVERTERS))
    /\ UNCHANGED <<call, ret, last,
                 process_vars, thread_vars, source_io>>

\* a later next(): the next row
csv_next ==
    /\ csv.pc = "suspended"
    /\ csv' = csv_advance(csv)
    /\ UNCHANGED <<call, ret, last, CONVERTERS,
                 process_vars, thread_vars, source_io>>

NextCsv ==
    \/ csv_first_next
    \/ csv_next

SpecCsv == InitCsv /\ [][NextCsv]_vars

(***************************************************************************)
(* Properties of the pure functions (checked under SpecPure).              *)
(***************************************************************************)
RECURSIVE LeavesOf(_), LeavesOfSeq(_)
\* the leaves of a declaration read left-to-right, depth-first into unions
LeavesOf(t) == IF t.k = "type" THEN <<t>> ELSE LeavesOfSeq(t.args)
LeavesOfSeq(ts) ==
    IF ts = <<>> THEN <<>> ELSE LeavesOf(Head(ts)) \o LeavesOfSeq(Tail(ts))

\* s with every element kept at its first occurrence only
FirstOccurrences(s) ==
    LET first == {i \in 1..Len(s) : \A j \in 1..(i - 1) : s[j] # s[i]}
        rank(i) == Cardinality({j \in first : j <= i})
    IN  [r \in 1..Cardinality(first) |->
            s[CHOOSE i \in first : rank(i) = r]]

\* C1: iterate_types yields exactly the leaves of its arguments, read
\* left-to-right and depth-first into unions, each type once at the position
\* of its first occurrence, and never a union object.
C1_ExpansionOrder ==
    ret.op = "iterate_types" =>
        /\ ret.out = FirstOccurrences(LeavesOfSeq(call.source_types))
        /\ \A i \in 1..Len(ret.out) : ~IsUnion(ret.out[i])

\* a union nested in a union was expanded and a repeated type was dropped
C1_Witness ==
    /\ ret.op = "iterate_types"
    /\ \E i \in 1..Len(call.source_types) :
          /\ IsUnion(call.source_types[i])
          /\ \E j \in 1..Len(call.source_types[i].args) :
                IsUnion(call.source_types[i].args[j])
    /\ Len(ret.out) = 2
    /\ Len(LeavesOfSeq(call.source_types)) = 3

\* the value's runtime type satisfies the candidate: the candidate is the
\* wildcard, or the runtime type or one of its base classes
Satisfies(value, candidate) ==
    \/ candidate.n = "Any"
    \/ candidate.n \in mro(value.cls)

\* C2: verified_cast returns the very same value iff some candidate of the
\* expansion of the specification is satisfied by the value's runtime type
\* (subtypes included); otherwise it raises InvalidTypeError carrying the
\* specification as expected_type and the rejected value.
C2_VerifiedCast ==
    ret.op = "verified_cast" =>
        LET leaves == LeavesOf(call.expected_type)
            satisfied == \E i \in 1..Len(leaves) :
                            Satisfies(call.value, leaves[i])
        IN  /\ (ret.out.kind = "return") <=> satisfied
            /\ satisfied => ret.out.value = call.value
            /\ ~satisfied =>
                  /\ ret.out.kind = "raise"
                  /\ ret.out.exc = "InvalidTypeError"
                  /\ ret.out.expected_type = call.expected_type
                  /\ ret.out.value = call.value

\* True passed through a cast to a union whose only matching member is int
C2_Witness ==
    /\ ret.op = "verified_cast"
    /\ ret.out.kind = "return"
    /\ call.value.cls = "bool"
    /\ IsUnion(call.expected_type)
    /\ LET leaves == LeavesOf(call.expected_type)
       IN  /\ \E i \in 1..Len(leaves) : leaves[i].n = "int"
           /\ \A i \in 1..Len(leaves) : leaves[i].n \in {"int", "str"}

\* the type a parameter is declared with: the annotation, the inner type of
\* an InitVar annotation, Any without an annotation
DeclaredType(ann) ==
    CASE ann.wrap = "none" -> typing_Any
      [] ann.wrap = "InitVar" -> Plain(ann.t)
      [] OTHER -> ann

HintsMatchDeclaration(function, hints) ==
    /\ DOMAIN hints = NamesOf(function.params)
    /\ \A i \in 1..Len(function.params) :
          hints[function.params[i].name] = DeclaredType(function.params[i].ann)

\* C3: for every callable, get_callable_argument_hints maps exactly the
\* declared parameter names, each to its declared type (the inner type of an
\* InitVar, Any when unannotated), with no return entry.
C3_HintsOfEveryCallable ==
    ret.op = "get_callable_argument_hints" =>
        HintsMatchDeclaration(call.function, ret.out)

\* what holds of the code: the same for functions and dataclasses
C3_HintsOfFunctionsAndDataclasses ==
    (ret.op = "get_callable_argument_hints" /\ call.function.kind # "class") =>
        HintsMatchDeclaration(call.function, ret.out)

PairSucceeds(pair, source) ==
    LET converted == apply_converter(pair[1], source)
    IN  /\ converted.kind = "return"
        /\ Satisfies(converted.value, Leaf(pair[2]))
\* the converter raises an exception that is not derived from Exception
PairEscapes(pair, source) ==
    LET converted == apply_converter(pair[1], source)
    IN  converted.kind = "raise" /\ converted.exc \in BaseExceptionsOnly
UpTo(k) == [i \in 1..k |-> i]
FirstSuccess(pairs, source, k) ==
    /\ PairSucceeds(pairs[k], source)
    /\ \A j \in 1..(k - 1) : ~PairSucceeds(pairs[j], source)

\* C8 as stated: the result is that of the first pair that converts and
\* passes the cast, whatever the pairs before it did, and exactly the pairs
\* up to it were invoked, in order.
C8_FirstSuccessWins ==
    ret.op = "first_valid_conversion" =>
        \A k \in 1..Len(call.converters) :
            FirstSuccess(call.converters, call.source, k) =>
                /\ ret.out = Return(apply_converter(call.converters[k][1],
                                                    call.source).value)
                /\ ret.invoked = UpTo(k)

\* C8 amended: the same, provided the pairs before the first success raised
\* exceptions derived from Exception or were rejected by the cast; a pair
\* before it whose converter raises an exception not derived from Exception
\* ends the call with that exception, and no later pair is invoked.
C8_FirstSuccessWinsUnlessEscape ==
    ret.op = "first_valid_conversion" =>
        /\ \A k \in 1..Len(call.converters) :
              (/\ FirstSuccess(call.converters, call.source, k)
               /\ \A j \in 1..(k - 1) :
                     ~PairEscapes(call.converters[j], call.source)) =>
                  /\ ret.out = Return(apply_converter(call.converters[k][1],
                                                      call.source).value)
                  /\ ret.invoked = UpTo(k)
        /\ \A j \in 1..Len(call.converters) :
              (/\ PairEscapes(call.converters[j], call.source)
               /\ \A i \in 1..(j - 1) :
                     /\ ~PairSucceeds(call.converters[i], call.source)
                     /\ ~PairEscapes(call.converters[i], call.source)) =>
                  /\ ret.out.kind = "raise"
                  /\ ret.out.exc =
                        apply_converter(call.converters[j][1], call.source).exc
                  /\ ret.invoked = UpTo(j)

\* a raising pair and a rejected pair were skipped, the third pair won
C8_Witness ==
    /\ ret.op = "first_valid_conversion"
    /\ ret.out.kind = "return"
    /\ ret.invoked = UpTo(3)
    /\ \E i \in 1..2 :
          apply_converter(call.converters[i][1], call.source).kind = "raise"
    /\ \E i \in 1..2 :
          apply_converter(call.converters[i][1], call.source).kind = "return"

\* C9 as stated: when every pair fails (or there is none) the call raises
\* StringParserError carrying the input string, and nothing else escapes.
C9_AllFailRaisesParserError ==
    (/\ ret.op = "first_valid_conversion"
     /\ \A i \in 1..Len(call.converters) :
           ~PairSucceeds(call.converters[i], call.source)) =>
        /\ ret.out.kind = "raise"
        /\ ret.out.exc = "StringParserError"
        /\ ret.out.value = Value("str", call.source)

\* C9 amended: when every pair fails with an exception derived from
\* Exception or a rejected cast (or there is no pair), the call raises
\* StringParserError carrying the input string; the only other exceptions
\* that leave the call are those not derived from Exception, raised by the
\* first converter that raises one.
C9_AllFailRaisesParserErrorUnlessEscape ==
    ret.op = "first_valid_conversion" =>
        /\ (\A i \in 1..Len(call.converters) :
               /\ ~PairSucceeds(call.converters[i], call.source)
               /\ ~PairEscapes(call.converters[i], call.source)) =>
              /\ ret.out.kind = "raise"
              /\ ret.out.exc = "StringParserError"
              /\ ret.out.value = Value("str", call.source)
        /\ (ret.out.kind = "raise" /\ ret.out.exc # "StringParserError") =>
              /\ ret.out.exc \in BaseExceptionsOnly
              /\ PairEscapes(call.converters[Len(ret.invoked)], call.source)
        /\ \A j \in 1..Len(call.converters) :
              (/\ PairEscapes(call.converters[j], call.source)
               /\ \A i \in 1..(j - 1) :
                     ~PairSucceeds(call.converters[i], call.source)) =>
                  /\ ret.out.kind = "raise"
                  /\ ret.out.exc \in BaseExceptionsOnly

\* a converter raised, another was rejected by the cast, none was left
C9_Witness ==
    /\ ret.op = "first_valid_conversion"
    /\ ret.out.exc = "StringParserError"
    /\ ret.invoked = UpTo(Len(call.converters))
    /\ \E i \in 1..Len(call.converters) :
          apply_converter(call.converters[i][1], call.source).kind = "raise"
    /\ \E i \in 1..Len(call.converters) :
          apply_converter(call.converters[i][1], call.source).kind = "return"

(***************************************************************************)
(* Properties of the registry (checked under SpecRegistry).                *)
(***************************************************************************)
LeafNames(target) ==
    LET leaves == LeavesOf(target)
    IN  {leaves[i].n : i \in 1..Len(leaves)}

\* C10: after set_converter(target, converter) the registry maps every
\* concrete type of the expansion of target to that converter, whatever it
\* held for it before, and holds for every other type what it held before.
C10_SetConverterFrame ==
    last.op = "set_converter" =>
        /\ DOMAIN CONVERTERS = DOMAIN last.before \cup LeafNames(last.target)
        /\ \A t \in LeafNames(last.target) : CONVERTERS[t] = last.converter
        /\ \A t \in DOMAIN CONVERTERS \ LeafNames(last.target) :
              CONVERTERS[t] = last.before[t]

\* a union target overwrote a built-in entry and a lazily discovered one,
\* inserted nothing else and left an earlier registration alone
C10_Witness ==
    /\ last.op = "set_converter"
    /\ LeafNames(last.target) = {"int", "FromMethod"}
    /\ dict_get(last.before, "int") = "int"
    /\ dict_get(last.before, "FromMethod") = "from_string"
    /\ dict_get(last.before, "Custom") = "fail_conv"
    /\ last.converter = "custom_conv"

(***************************************************************************)
(* Properties of csv_load (checked under SpecCsv).                         *)
(***************************************************************************)
\* the data rows of the source: every row but the header row read from it
DataRowsOf(args) ==
    IF args.column_names.some THEN args.rows
    ELSE IF args.rows = <<>> THEN <<>> ELSE Tail(args.rows)

\* the record the retained fields and the construction function give for a
\* row: each field converted from the cell at its column index
RecordOf(row, fields, init_function) ==
    [cls |-> init_function,
     kwargs |-> [j \in 1..Len(fields) |->
                    <<fields[j].name,
                      first_valid_conversion(row[fields[j].index],
                                             fields[j].converters).out.value>>]]

\* C4: csv_load yields one record per data row in row order: the i-th record
\* is built from the i-th data row, the header row read from the source
\* gives the column names and no record, and a load consumed to exhaustion
\* has yielded as many records as there are data rows.
C4_OneRecordPerDataRow ==
    /\ \A i \in 1..Len(csv.yielded) :
          /\ i <= Len(DataRowsOf(csv.args))
          /\ csv.yielded[i] = RecordOf(DataRowsOf(csv.args)[i], csv.fields,
                                       csv.init_function)
    /\ csv.pc = "done" => Len(csv.yielded) = Len(DataRowsOf(csv.args))
    /\ (csv.resolved /\ ~csv.args.column_names.some) =>
          csv.column_names = csv.args.rows[1]

\* a source with a header row and two different data rows, fully consumed
C4_Witness ==
    /\ csv.pc = "done"
    /\ ~csv.args.column_names.some
    /\ Len(csv.args.rows) = 3
    /\ Len(csv.yielded) = 2
    /\ csv.yielded[1] # csv.yielded[2]
    /\ Len(csv.fields) >= 2

ConsumedIndices == {csv.fields[j].index : j \in 1..Len(csv.fields)}

\* C5: whenever allow_column_subset is False and some source column is not
\* consumed by any retained field, the load raises the column-subset error
\* before it yields a record.
C5_UnconsumedColumnRaises ==
    (/\ csv.resolved
     /\ ~csv.args.allow_column_subset
     /\ \E i \in 1..Len(csv.column_names) : i \notin ConsumedIndices) =>
        /\ csv.pc = "raised"
        /\ csv.error = "UnconsumedColumnsError"
        /\ csv.yielded = <<>>

\* what holds of the code: the same when no two retained fields read the
\* same column
C5_UnconsumedColumnRaisesUnlessShared ==
    (/\ csv.resolved
     /\ ~csv.args.allow_column_subset
     /\ Cardinality(ConsumedIndices) = Len(csv.fields)
     /\ \E i \in 1..Len(csv.column_names) : i \notin ConsumedIndices) =>
        /\ csv.pc = "raised"
        /\ csv.error = "UnconsumedColumnsError"
        /\ csv.yielded = <<>>

HasRepeatedName(names) ==
    \E i, j \in 1..Len(names) : i # j /\ names[i] = names[j]
LastIndexOf(names, n) ==
    CHOOSE i \in 1..Len(names) :
        names[i] = n /\ \A j \in (i + 1)..Len(names) : names[j] # n
\* a load into plain mappings with the default field mapping
PlainLoad(args) ==
    /\ args.dataclass = None
    /\ args.init_function = None
    /\ ~args.field_to_column_name.some

\* every record has one key per distinct column name, and under each name
\* the cell at the last column index that carries it
KeysAreColumnsLastWins ==
    \A i \in 1..Len(csv.yielded) :
        LET items == csv.yielded[i].kwargs
            row == DataRowsOf(csv.args)[i]
            names == {csv.column_names[j] : j \in 1..Len(csv.column_names)}
        IN  /\ Len(items) = Cardinality(names)
            /\ {items[j][1] : j \in 1..Len(items)} = names
            /\ \A j \in 1..Len(items) :
                  items[j][2] =
                     Value("str", row[LastIndexOf(csv.column_names, items[j][1])])

\* C6 as stated: with a repeated column name a load into plain mappings
\* does not fail, and its records have one key per distinct column name
\* holding the cell at the last index of that name.
C6_RepeatedHeaderIsOk ==
    (/\ csv.resolved
     /\ PlainLoad(csv.args)
     /\ HasRepeatedName(csv.column_names)) =>
        /\ csv.error = None
        /\ KeysAreColumnsLastWins

\* C6 amended: the same when allow_column_subset is True and every data row
\* has a cell at each index read (a shorter row ends the load with
\* IndexError); when allow_column_subset is False the load raises
\* UnconsumedColumnsError, the earlier columns of a repeated name being
\* unconsumed.
C6_RepeatedHeaderIsOkWhenSubsetAllowed ==
    (/\ csv.resolved
     /\ PlainLoad(csv.args)
     /\ HasRepeatedName(csv.column_names)) =>
        /\ KeysAreColumnsLastWins
        /\ csv.args.allow_column_subset =>
              \/ csv.error = None
              \/ /\ csv.error = "IndexError"
                 /\ \E j \in 1..Len(csv.fields) :
                       csv.fields[j].index > Len(csv.args.rows[csv.pos - 1])
        /\ ~csv.args.allow_column_subset =>
              /\ csv.error = "UnconsumedColumnsError"
              /\ csv.yielded = <<>>

\* header a,a,b: the record of a row holds the second and the third cell
C6_Witness ==
    /\ PlainLoad(csv.args)
    /\ csv.column_names = <<"a", "a", "b">>
    /\ csv.pc = "done"
    /\ Len(csv.yielded) >= 1
    /\ csv.yielded[1].kwargs = <<<<"a", Value("str", "2")>>,
                                 <<"b", Value("str", "3")>>>>

\* C7 as stated: on a source without any row the load ends without a
\* record and without an error, whatever the other arguments are.
C7_EmptySourceNoError ==
    (csv.args.rows = <<>> /\ csv.pc # "created") =>
        /\ csv.pc = "done"
        /\ csv.error = None
        /\ csv.yielded = <<>>

\* C7 amended: on a source without any row the load yields no record; it
\* ends without an error whatever the other arguments are when the column
\* names are read from the source; with explicit column names the setup
\* still runs, and ends without an error or with NotADataclassError or
\* UnconsumedColumnsError.
C7_EmptySourceNoErrorUnlessExplicitColumns ==
    (csv.args.rows = <<>> /\ csv.pc # "created") =>
        /\ csv.yielded = <<>>
        /\ ~csv.args.column_names.some =>
              csv.pc = "done" /\ csv.error = None
        /\ csv.args.column_names.some =>
              \/ csv.pc = "done" /\ csv.error = None
              \/ /\ csv.pc = "raised"
                 /\ csv.error \in {"NotADataclassError",
                                   "UnconsumedColumnsError"}
                 /\ \/ csv.args.dataclass = "NotDC"
                    \/ ~csv.args.allow_column_subset

\* an empty source, no column names, and arguments that fail any other load
C7_Witness ==
    /\ csv.args.rows = <<>>
    /\ ~csv.args.column_names.some
    /\ csv.args.dataclass = "NotDC"
    /\ ~csv.args.allow_column_subset
    /\ csv.pc = "done"

(***************************************************************************)
(* SpecProcess: the StringParser instances of one process.  An instance is *)
(* known by its position in parsers, which holds its _CONVERTERS; the      *)
(* cache of StringParser.default holds an instance or nothing.  A load is  *)
(* consumed to its end within one step: list(csv_load(...)).               *)
(***************************************************************************)
MaxParsers == 2     \* StringParser instances made in the process

\* no instance: an empty cache, or a load without a string_parser of its own
NoParser == 0

\* StringParser(): _CONVERTERS is dict(default_string_converters()), a copy
StringParser_new == default_string_converters

\* the plausible slip: default() without @cache makes an instance per call
default_uncached(cache, made) == made + 1
\* the instance StringParser.default() returns: the cached one, or the one
\* it makes on its first call
default_instance(cache, made) == IF cache # NoParser THEN cache ELSE made + 1

\* the instances after a call of default()
parsers_after_default(all, instance) ==
    IF instance > Len(all) THEN Append(all, StringParser_new) ELSE all

\* the generator frame of a csv_load call that has not run yet
csv_created(args) ==
    [pc |-> "created", args |-> args, pos |-> 1, column_names |-> <<>>,
     fields |-> <<>>, init_function |-> None, resolved |-> FALSE,
     yielded |-> <<>>, error |-> None, init_calls |-> 0]

RECURSIVE csv_run(_)
\* next() until the generator is exhausted or raises
csv_run(frame) ==
    IF frame.pc \in {"done", "raised"} THEN frame
    ELSE csv_run(csv_advance(frame))

csv_run_from(frame, setup) ==
    [frame |-> csv_run(csv_started(csv_entered(frame, setup), setup)),
     registry |-> setup.registry]

\* list(csv_load(..., options=CsvLoadOptions(string_parser=...)))
list_csv_load(args, registry) ==
    csv_run_from(csv_created(args), csv_setup(args, registry))

\* the loads and registrations the callers of the process make
ProcessLoads ==
    {[rows |-> <<<<"a", "b">>, row>>, column_names |-> Nothing,
      field_to_column_name |-> Nothing, dataclass |-> dataclass,
      init_function |-> init_function, allow_column_subset |-> TRUE] :
        row \in {<<"1", "2", "3">>, <<"x", "2", "z">>},
        dataclass \in {None, "Rec"},
        init_function \in {None, "make"}}
ProcessTargets == {Leaf("int"), Leaf("str")}

ProcessOp(op, instance, given, fields, error) ==
    [op |-> op, instance |-> instance, given |-> given, fields |-> fields,
     error |-> error]

InitProcess ==
    /\ parsers = <<>>
    /\ default_cache = NoParser
    /\ last = ProcessOp("none", 0, NoParser, <<>>, None)
    /\ CONVERTERS = IdleRegistry
    /\ call = NotCalled
    /\ ret = NotCalled
    /\ csv = IdleCsv
    /\ IdleThreads
    /\ IdleSource

\* StringParser()
Process_StringParser ==
    /\ Len(parsers) < MaxParsers
    /\ parsers' = Append(parsers, StringParser_new)
    /\ last' = ProcessOp("StringParser", Len(parsers) + 1, NoParser, <<>>, None)
    /\ UNCHANGED <<call, ret, CONVERTERS, csv, default_cache, thread_vars,
                   source_io>>

process_default_effect(instance) ==
    /\ instance <= MaxParsers
    /\ parsers' = parsers_after_default(parsers, instance)
    /\ default_cache' = instance
    /\ last' = ProcessOp("default", instance, NoParser, <<>>, None)

\* StringParser.default()
Process_default ==
    /\ process_default_effect(default_instance(default_cache, Len(parsers)))
    /\ UNCHANGED <<call, ret, CONVERTERS, csv, thread_vars, source_io>>

\* instance.set_converter(target, converter=custom_conv)
Process_set_converter ==
    \E instance \in 1..Len(parsers), target \in ProcessTargets :
        /\ parsers' = [parsers EXCEPT ![instance] =
                          set_converter(@, target, "custom_conv")]
        /\ last' = ProcessOp("set_converter", instance, NoParser, <<>>, None)
        /\ UNCHANGED <<call, ret, CONVERTERS, csv, default_cache,
                       thread_vars, source_io>>

process_load_effect(given, instance, all, loaded) ==
    /\ parsers' = [all EXCEPT ![instance] = loaded.registry]
    /\ default_cache' = IF given # NoParser THEN default_cache ELSE instance
    /\ last' = ProcessOp("csv_load", instance, given, loaded.frame.fields,
                         loaded.frame.error)

process_load(args, given, instance, all) ==
    /\ instance <= MaxParsers
    /\ process_load_effect(given, instance, all,
                           list_csv_load(args, all[instance]))

\* list(csv_load(source, ..., options=CsvLoadOptions(string_parser=given))),
\* or without options: the string_parser is then StringParser.default()
Process_csv_load ==
    /\ \E args \in ProcessLoads,
          given \in {NoParser} \cup (1..Len(parsers)) :
          IF given = NoParser
          THEN process_load(args, given,
                   default_instance(default_cache, Len(parsers)),
                   parsers_after_default(parsers,
                       default_instance(default_cache, Len(parsers))))
          ELSE process_load(args, given, given, parsers)
    /\ UNCHANGED <<call, ret, CONVERTERS, csv, thread_vars, source_io>>

NextProcess ==
    \/ Process_StringParser
    \/ Process_default
    \/ Process_set_converter
    \/ Process_csv_load

SpecProcess == InitProcess /\ [][NextProcess]_vars

\* the chain every field of the last load got is the one the registry held
\* for its type when the load ran
ChainsComeFrom(registry) ==
    \A j \in 1..Len(last'.fields) :
        /\ Len(last'.fields[j].converters) = 1
        /\ last'.fields[j].converters[1][1] =
              registry[last'.fields[j].converters[1][2]]

\* C11: StringParser.default() returns one instance for the whole process;
\* a load without a registry of its own runs on that instance, with the
\* converters registered on it; StringParser() starts from the built-in
\* converters, and a registration or a load on one instance leaves every
\* other instance as it was.
C11_DefaultIsShared ==
    [][/\ default_cache # NoParser => default_cache' = default_cache
       /\ last'.op = "default" =>
             /\ default_cache' = last'.instance
             /\ default_cache # NoParser => parsers' = parsers
       /\ last'.op = "StringParser" =>
             /\ parsers'[last'.instance] = default_string_converters
             /\ last'.instance \notin DOMAIN parsers
             /\ default_cache' = default_cache
       /\ (last'.op = "csv_load" /\ last'.given = NoParser) =>
             /\ default_cache' = last'.instance
             /\ default_cache # NoParser => ChainsComeFrom(parsers[default_cache])
             /\ default_cache = NoParser => ChainsComeFrom(default_string_converters)
       /\ (last'.op = "csv_load" /\ last'.given # NoParser) =>
             /\ last'.instance = last'.given
             /\ ChainsComeFrom(parsers[last'.given])
       /\ \A i \in DOMAIN parsers :
             i # last'.instance => parsers'[i] = parsers[i]]_vars

\* a converter registered for int on the default instance and not on the
\* other instance, then a load without a registry of its own that used it
C11_Witness ==
    /\ last.op = "csv_load"
    /\ last.given = NoParser
    /\ Len(parsers) = 2
    /\ default_cache # NoParser
    /\ parsers[default_cache]["int"] = "custom_conv"
    /\ parsers[3 - default_cache]["int"] = "int"
    /\ \E j \in 1..Len(last.fields) :
          last.fields[j].converters = <<<<"custom_conv", "int">>>>

(***************************************************************************)
(* json5_load.  A text is a sequence of characters.  The two re.sub passes *)
(* are computed as the regex engine computes them: leftmost match, the     *)
(* alternatives in their order.  What json5_load hands to json.loads is    *)
(* the text after both passes.                                             *)
(***************************************************************************)
MaxText == 5        \* characters of a text given to json5_load

DQ == "\""
SQ == "'"
BACKSLASH == "\\"
Blank == {" ", "\t"}                          \* [ \t]
LineEnd == {"\r", "\n"}                       \* [\r\n]
Whitespace == {" ", "\t", "\n", "\r"}         \* \s
Closer == {"]", "}"}                          \* [\]}]

RECURSIVE string_body_end(_, _, _)
\* (?:\\.|[^"\\])*" from position j: the position of the closing quote, or 0
string_body_end(text, j, quote) ==
    IF j > Len(text) THEN 0
    ELSE IF text[j] = quote THEN j
    ELSE IF text[j] = BACKSLASH
         THEN IF j + 1 > Len(text) THEN 0
              ELSE string_body_end(text, j + 2, quote)
    ELSE string_body_end(text, j + 1, quote)

\* alternatives 1 and 2: a quoted string that starts at i; the position of
\* its last character, or 0
string_end(text, i, quote) ==
    IF text[i] = quote THEN string_body_end(text, i + 1, quote) ELSE 0

RECURSIVE skip_blanks(_, _)
\* [ \t]*
skip_blanks(text, i) ==
    IF i <= Len(text) /\ text[i] \in Blank THEN skip_blanks(text, i + 1) ELSE i

starts_with(text, i, a, b) ==
    /\ i + 1 <= Len(text)
    /\ text[i] = a
    /\ text[i + 1] = b

RECURSIVE line_end(_, _)
\* [^\r\n]*
line_end(text, j) ==
    IF j <= Len(text) /\ text[j] \notin LineEnd THEN line_end(text, j + 1)
    ELSE j - 1

\* alternative 3: [ \t]*//[^\r\n]*
line_comment_end(text, i) ==
    IF starts_with(text, skip_blanks(text, i), "/", "/")
    THEN line_end(text, skip_blanks(text, i) + 2)
    ELSE 0

RECURSIVE block_close(_, _)
\* .*?\*/ from position j: the position of the closing slash, or 0
block_close(text, j) ==
    IF j + 1 > Len(text) THEN 0
    ELSE IF starts_with(text, j, "*", "/") THEN j + 1
    ELSE block_close(text, j + 1)

\* alternative 4: [ \t]*/\*.*?\*/
block_comment_end(text, i) ==
    IF starts_with(text, skip_blanks(text, i), "/", "*")
    THEN block_close(text, skip_blanks(text, i) + 2)
    ELSE 0

Slice(text, a, b) == [k \in 1..(b - a + 1) |-> text[a + k - 1]]

RECURSIVE comment_pattern_sub(_, _, _)
\* _JSON5_COMMENT_PATTERN.sub(comment_replacer, text): a quoted string is
\* replaced by itself, a comment by the empty string
comment_pattern_sub(text, i, out) ==
    IF i > Len(text) THEN out
    ELSE IF string_end(text, i, DQ) # 0
         THEN comment_pattern_sub(text, string_end(text, i, DQ) + 1,
                  out \o Slice(text, i, string_end(text, i, DQ)))
    ELSE IF string_end(text, i, SQ) # 0
         THEN comment_pattern_sub(text, string_end(text, i, SQ) + 1,
                  out \o Slice(text, i, string_end(text, i, SQ)))
    ELSE IF line_comment_end(text, i) # 0
         THEN comment_pattern_sub(text, line_comment_end(text, i) + 1, out)
    ELSE IF block_comment_end(text, i) # 0
         THEN comment_pattern_sub(text, block_comment_end(text, i) + 1, out)
    ELSE comment_pattern_sub(text, i + 1, Append(out, text[i]))

RECURSIVE skip_whitespace(_, _)
\* \s*
skip_whitespace(text, i) ==
    IF i <= Len(text) /\ text[i] \in Whitespace
    THEN skip_whitespace(text, i + 1) ELSE i

\* ,(?=\s*[\]}]) at position i
is_trailing_comma(text, i) ==
    /\ text[i] = ","
    /\ skip_whitespace(text, i + 1) <= Len(text)
    /\ text[skip_whitespace(text, i + 1)] \in Closer

RECURSIVE trailing_comma_sub(_, _, _)
\* re.sub(r",(?=\s*[\]}])", "", text)
trailing_comma_sub(text, i, out) ==
    IF i > Len(text) THEN out
    ELSE trailing_comma_sub(text, i + 1,
             IF is_trailing_comma(text, i) THEN out ELSE Append(out, text[i]))

\* the argument json5_load gives to json.loads
json5_decoder_input(source) ==
    trailing_comma_sub(comment_pattern_sub(source, 1, <<>>), 1, <<>>)

(***************************************************************************)
(* naming.py.  A name is a sequence of characters; the letters of the      *)
(* model are a and x with their capitals.                                  *)
(***************************************************************************)
MaxName == 4        \* characters of a name given to convert_name

\* NameStyleConfig(separator, capitalize_first, capitalize_rest)
NameStyleConfig(separator, capitalize_first, capitalize_rest) ==
    [separator |-> separator, capitalize_first |-> capitalize_first,
     capitalize_rest |-> capitalize_rest]
NameStyle == {"SNAKE_CASE", "KEBAB_CASE", "CAMEL_CASE", "PASCAL_CASE"}
config(style) ==
    CASE style = "SNAKE_CASE" -> NameStyleConfig(<<"_">>, FALSE, FALSE)
      [] style = "KEBAB_CASE" -> NameStyleConfig(<<"-">>, FALSE, FALSE)
      [] style = "CAMEL_CASE" -> NameStyleConfig(<<>>, FALSE, TRUE)
      [] style = "PASCAL_CASE" -> NameStyleConfig(<<>>, TRUE, TRUE)

isupper(c) == c \in {"A", "X"}
isspace(c) == c \in Whitespace
lower_char(c) == CASE c = "A" -> "a" [] c = "X" -> "x" [] OTHER -> c
upper_char(c) == CASE c = "a" -> "A" [] c = "x" -> "X" [] OTHER -> c
str_lower(word) == [k \in 1..Len(word) |-> lower_char(word[k])]
\* the plausible slip: str.upper() where str.capitalize() is meant
capitalize_upper(word) == [k \in 1..Len(word) |-> upper_char(word[k])]
\* str.capitalize(): the first character upper, the others lower
capitalize(word) ==
    [k \in 1..Len(word) |->
        IF k = 1 THEN upper_char(word[k]) ELSE lower_char(word[k])]

\* offset is None
NoOffset == 0

RECURSIVE split_loop(_, _, _, _, _)
\* the for loop of split_into_words over chain(name, "-"): the position i
\* (from 1), the offset of the word being read, the last character, the
\* words so far
split_loop(name, i, offset, last_char, words) ==
    IF i > Len(name) + 1 THEN words
    ELSE LET current == IF i <= Len(name) THEN name[i] ELSE "-"
             is_delimiter == current \in {"-", "_"} \/ isspace(current)
             is_lower_to_upper == ~isupper(last_char) /\ isupper(current)
         IN  IF is_delimiter \/ is_lower_to_upper
             THEN split_loop(name, i + 1,
                      IF is_lower_to_upper THEN i ELSE NoOffset,
                      current,
                      IF offset # NoOffset /\ offset # i
                      THEN Append(words, str_lower(Slice(name, offset, i - 1)))
                      ELSE words)
             ELSE split_loop(name, i + 1,
                      IF offset = NoOffset THEN i ELSE offset,
                      current, words)

split_into_words(name) == split_loop(name, 1, NoOffset, "X", <<>>)

RECURSIVE separator_join(_, _)
\* separator.join(words)
separator_join(separator, words) ==
    IF words = <<>> THEN <<>>
    ELSE IF Len(words) = 1 THEN words[1]
    ELSE words[1] \o separator \o separator_join(separator, Tail(words))

transformed(words, cfg) ==
    [i \in 1..Len(words) |->
        IF \/ (i = 1 /\ cfg.capitalize_first)
           \/ (i > 1 /\ cfg.capitalize_rest)
        THEN capitalize(words[i]) ELSE words[i]]

RECURSIVE normalized_words(_)
\* [word.lower() for word in words if word]
normalized_words(words) ==
    IF words = <<>> THEN <<>>
    ELSE IF Head(words) = <<>> THEN normalized_words(Tail(words))
    ELSE <<str_lower(Head(words))>> \o normalized_words(Tail(words))

join_words(words, style) ==
    IF normalized_words(words) = <<>> THEN <<>>
    ELSE separator_join(config(style).separator,
                        transformed(normalized_words(words), config(style)))

convert_name(name, style) == join_words(split_into_words(name), style)

(***************************************************************************)
(* SpecText: json5_load or convert_name applied once to a text drawn in    *)
(* Init.                                                                   *)
(***************************************************************************)
JsonChars == {DQ, BACKSLASH, ",", "]", "/", "*"}
RECURSIVE Texts(_, _)
\* the texts of at most n characters
Texts(chars, n) ==
    IF n = 0 THEN {<<>>}
    ELSE {<<>>} \cup {<<c>> \o rest : c \in chars, rest \in Texts(chars, n - 1)}

NameChars == {"a", "A", "_", "1"}

InitText ==
    /\ \/ \E source \in Texts(JsonChars, MaxText) :
             call = [op |-> "json5_load", source |-> source]
       \/ \E name \in Texts(NameChars, MaxName),
             intermediate \in NameStyle, style \in NameStyle :
             call = [op |-> "convert_name", name |-> name,
                     intermediate |-> intermediate, style |-> style]
    /\ ret = NotCalled
    /\ CONVERTERS = IdleRegistry
    /\ last = IdleLast
    /\ csv = IdleCsv
    /\ IdleProcess
    /\ IdleThreads
    /\ IdleSource

Call_json5_load ==
    /\ call.op = "json5_load"
    /\ ret = NotCalled
    /\ ret' = [op |-> call.op,
               no_comments |-> comment_pattern_sub(call.source, 1, <<>>),
               out |-> json5_decoder_input(call.source)]
    /\ UNCHANGED <<call, CONVERTERS, last, csv, process_vars, thread_vars,
                   source_io>>

\* convert_name(name, style), directly and through an intermediate style
Call_convert_name ==
    /\ call.op = "convert_name"
    /\ ret = NotCalled
    /\ ret' = [op |-> call.op,
               direct |-> convert_name(call.name, call.style),
               intermediate |-> convert_name(call.name, call.intermediate),
               via |-> convert_name(convert_name(call.name, call.intermediate),
                                    call.style)]
    /\ UNCHANGED <<call, CONVERTERS, last, csv, process_vars, thread_vars,
                   source_io>>

NextText ==
    \/ Call_json5_load
    \/ Call_convert_name

SpecText == InitText /\ [][NextText]_vars

RECURSIVE QuotedStrings(_, _, _)
\* the quoted strings of a text in their order, each with its quotes:
\* comments are skipped, and a quote character without a closing one
\* begins no string
QuotedStrings(text, i, strings) ==
    IF i > Len(text) THEN strings
    ELSE IF string_end(text, i, DQ) # 0
         THEN QuotedStrings(text, string_end(text, i, DQ) + 1,
                  Append(strings, Slice(text, i, string_end(text, i, DQ))))
    ELSE IF string_end(text, i, SQ) # 0
         THEN QuotedStrings(text, string_end(text, i, SQ) + 1,
                  Append(strings, Slice(text, i, string_end(text, i, SQ))))
    ELSE IF line_comment_end(text, i) # 0
         THEN QuotedStrings(text, line_comment_end(text, i) + 1, strings)
    ELSE IF block_comment_end(text, i) # 0
         THEN QuotedStrings(text, block_comment_end(text, i) + 1, strings)
    ELSE QuotedStrings(text, i + 1, strings)

\* C12: the quoted strings of the source reach the JSON decoder verbatim:
\* the text handed to json.loads holds the same quoted strings, character
\* for character, as the source.
C12_QuotedStringsVerbatim ==
    ret.op = "json5_load" =>
        QuotedStrings(ret.out, 1, <<>>) = QuotedStrings(call.source, 1, <<>>)

\* what holds of the code: the comment pass alone keeps every quoted string
C12_CommentPassKeepsStrings ==
    ret.op = "json5_load" =>
        QuotedStrings(ret.no_comments, 1, <<>>) =
            QuotedStrings(call.source, 1, <<>>)

WordsAreReadable(name) ==
    \A k \in 1..Len(split_into_words(name)) :
        /\ Len(split_into_words(name)[k]) >= 2
        /\ isupper(upper_char(split_into_words(name)[k][1]))

MaxThreads == 2     \* threads that call into the registry

\* _CONVERTER_LOCK is not held
Unlocked == 0

\* the plausible slip: the loop is entered without taking the lock
enters_without_lock(holder) == TRUE
\* with self._CONVERTER_LOCK: a thread gets past it when no thread holds it
lock_acquired(holder) == holder = Unlocked

ThreadTargets ==
    {UnionOf(<<Leaf("int"), Leaf("FromMethod")>>),
     UnionOf(<<Leaf("FromMethod"), Leaf("int")>>),
     Leaf("FromMethod"), Leaf("Custom")}
ThreadCalls ==
    {[op |-> "converters", target |-> target, converter |-> None] :
        target \in ThreadTargets}
    \cup {[op |-> "set_converter", target |-> target, converter |-> c] :
             target \in ThreadTargets, c \in UserConverters}

\* the frame of a thread: its call, where it is, the candidates its for
\* loop has still to visit, the pairs it has appended, and the registry as
\* it was when the thread got the lock
ThreadFrame(thread_call, pc, candidates, found, entered) ==
    [op |-> thread_call.op, target |-> thread_call.target,
     converter |-> thread_call.converter, pc |-> pc,
     candidates |-> candidates, found |-> found, entered |-> entered]

InitThreads ==
    /\ threads \in [1..MaxThreads ->
                       {ThreadFrame(c, "call", <<>>, <<>>, <<>>) :
                           c \in ThreadCalls}]
    /\ lock = Unlocked
    /\ CONVERTERS = default_string_converters
    /\ last = IdleLast
    /\ call = NotCalled
    /\ ret = NotCalled
    /\ csv = IdleCsv
    /\ IdleProcess
    /\ IdleSource

\* with self._CONVERTER_LOCK: and the call of iterate_types(target)
Thread_acquire ==
    \E t \in 1..MaxThreads :
        /\ threads[t].pc = "call"
        /\ lock_acquired(lock)
        /\ lock' = t
        /\ threads' = [threads EXCEPT
              ![t] = ThreadFrame(threads[t], "loop",
                                 iterate_types(<<threads[t].target>>), <<>>,
                                 CONVERTERS)]
        /\ UNCHANGED <<call, ret, CONVERTERS, last, csv, process_vars,
                       source_io>>

\* one iteration of the for loop of converters
thread_converters_step(t, resolved) ==
    /\ CONVERTERS' = resolved.registry
    /\ threads' = [threads EXCEPT
          ![t] = ThreadFrame(threads[t], "loop", Tail(threads[t].candidates),
                             resolved.converters, threads[t].entered)]

\* one iteration of the for loop of set_converter
thread_set_converter_step(t) ==
    /\ CONVERTERS' = dict_setitem(CONVERTERS, Head(threads[t].candidates).n,
                                  threads[t].converter)
    /\ threads' = [threads EXCEPT
          ![t] = ThreadFrame(threads[t], "loop", Tail(threads[t].candidates),
                             <<>>, threads[t].entered)]

Thread_iterate ==
    \E t \in 1..MaxThreads :
        /\ threads[t].pc = "loop"
        /\ threads[t].candidates # <<>>
        /\ IF threads[t].op = "converters"
           THEN thread_converters_step(t,
                    converters_loop(<<Head(threads[t].candidates)>>,
                                    CONVERTERS, threads[t].found))
           ELSE thread_set_converter_step(t)
        /\ UNCHANGED <<call, ret, last, csv, lock, process_vars, source_io>>

\* the end of the with block: the lock is released and the call returns
Thread_release ==
    \E t \in 1..MaxThreads :
        /\ threads[t].pc = "loop"
        /\ threads[t].candidates = <<>>
        /\ lock' = Unlocked
        /\ threads' = [threads EXCEPT
              ![t] = ThreadFrame(threads[t], "done", <<>>, threads[t].found,
                                 threads[t].entered)]
        /\ UNCHANGED <<call, ret, CONVERTERS, last, csv, process_vars,
                       source_io>>

NextThreads ==
    \/ Thread_acquire
    \/ Thread_iterate
    \/ Thread_release

SpecThreads == InitThreads /\ [][NextThreads]_vars

\* what the call of a thread does to a registry when nothing runs beside it
WholeCall(frame, registry) ==
    IF frame.op = "converters" THEN converters(registry, frame.target)
    ELSE Resolved(set_converter(registry, frame.target, frame.converter), <<>>)

\* the pairs of a converters call all hold the same converter c
AllFrom(frame, c) ==
    \A k \in 1..Len(frame.found) : frame.found[k][1] = c

\* no thread other than t changes an entry outside the types of t's target
\* or only a part of them
OthersRegisterSameTypes(t) ==
    \A u \in (1..MaxThreads) \ {t} :
        /\ threads[u].op = "set_converter"
        /\ LeafNames(threads[u].target) = LeafNames(threads[t].target)

\* the result of a finished converters call is the previous converters for
\* all of its types or the converter of one set_converter call for all
NeverAMix(t) ==
    (/\ threads[t].pc = "done"
     /\ threads[t].op = "converters"
     /\ OthersRegisterSameTypes(t)) =>
        \/ threads[t].found =
              converters(default_string_converters, threads[t].target).converters
        \/ \E u \in (1..MaxThreads) \ {t} :
              /\ Len(threads[t].found) = Cardinality(LeafNames(threads[t].target))
              /\ AllFrom(threads[t], threads[u].converter)

\* C14: each call takes effect atomically under the lock: when it returns,
\* the registry and its result are what the whole call makes of the
\* registry as it was when the call got the lock, only the thread that
\* holds the lock changes the registry, a converters call that overlaps
\* set_converter calls on the same types returns the previous converters
\* for all of them or one call's converter for all, and concurrent first
\* lookups of a type return the same converter.
C14_CallsAreAtomic ==
    [][/\ \A t \in 1..MaxThreads :
             (threads[t].pc = "loop" /\ threads'[t].pc = "done") =>
                /\ CONVERTERS' = WholeCall(threads[t], threads[t].entered).registry
                /\ threads'[t].found =
                      WholeCall(threads[t], threads[t].entered).converters
       /\ CONVERTERS' # CONVERTERS =>
             /\ lock # Unlocked
             /\ threads[lock].pc = "loop"
             /\ \A u \in (1..MaxThreads) \ {lock} : threads'[u] = threads[u]
       /\ \A t \in 1..MaxThreads : NeverAMix(t)'
       /\ \A t, u \in 1..MaxThreads :
             (/\ threads'[t].pc = "done" /\ threads'[u].pc = "done"
              /\ threads'[t].op = "converters" /\ threads'[u].op = "converters"
              /\ threads'[t].target = Leaf("FromMethod")
              /\ threads'[u].target = Leaf("FromMethod")
              /\ \A v \in 1..MaxThreads : threads'[v].op = "converters") =>
                /\ threads'[t].found = threads'[u].found
                /\ threads'[t].found = <<<<"from_string", "FromMethod">>>>
                /\ CONVERTERS'["FromMethod"] = "from_string"]_vars

\* a converters call on int | FromMethod that overlapped a set_converter
\* call on the same types: the setter got the lock first and the lookup
\* returned its converter for both types
C14_Witness ==
    /\ threads[1].pc = "done"
    /\ threads[2].pc = "done"
    /\ threads[1].op = "converters"
    /\ threads[1].target = UnionOf(<<Leaf("int"), Leaf("FromMethod")>>)
    /\ threads[2].op = "set_converter"
    /\ threads[2].target = UnionOf(<<Leaf("FromMethod"), Leaf("int")>>)
    /\ threads[1].found = <<<<"custom_conv", "int">>,
                            <<"custom_conv", "FromMethod">>>>

(***************************************************************************)
(* Properties of converters (checked under SpecRegistry).                  *)
(***************************************************************************)
\* the candidates of a target that had an entry or expose from_string
Convertible(candidates, before) ==
    {i \in 1..Len(candidates) :
        \/ candidates[i].n \in DOMAIN before
        \/ has_from_string(candidates[i])}

\* the k-th of a set of positions, in increasing order
KthOf(positions, k) ==
    CHOOSE i \in positions : Cardinality({j \in positions : j <= i}) = k

PairsInExpansionOrder(candidates, before, found) ==
    /\ Len(found) = Cardinality(Convertible(candidates, before))
    /\ \A k \in 1..Len(found) :
          LET candidate == candidates[KthOf(Convertible(candidates, before), k)]
          IN  /\ found[k][2] = candidate.n
              /\ found[k][1] = IF candidate.n \in DOMAIN before
                               THEN before[candidate.n] ELSE "from_string"

\* C15: converters(type_spec) returns without raising: in expansion order it
\* gives one (converter, type) pair for each candidate that had an entry or
\* exposes from_string, and leaves out every other candidate, which neither
\* removes nor reorders the pairs of the others.
C15_ConvertersSkipsUnknown ==
    last.op = "converters" =>
        /\ last.out.kind = "return"
        /\ PairsInExpansionOrder(iterate_types(<<last.target>>), last.before,
                                 last.found)

\* int | Custom | FromMethod with no entry for Custom: the pair of int, then
\* the pair of FromMethod, discovered by this call
C15_Witness ==
    /\ last.op = "converters"
    /\ last.target = UnionOf(<<Leaf("int"), Leaf("Custom"), Leaf("FromMethod")>>)
    /\ "Custom" \notin DOMAIN last.before
    /\ "FromMethod" \notin DOMAIN last.before
    /\ last.found = <<<<"int", "int">>, <<"from_string", "FromMethod">>>>

(***************************************************************************)
(* SpecLookups: converters and set_converter calls on one registry, with   *)
(* the memory of the converter that converters() returned first for each   *)
(* type.                                                                   *)
(***************************************************************************)
LookupTargets ==
    {Leaf("int"), Leaf("Custom"), Leaf("FromMethod"),
     UnionOf(<<Leaf("Custom"), Leaf("FromMethod")>>)}

RECURSIVE remember(_, _)
\* the first converter returned for each type, after the pairs of one call
remember(first, found) ==
    IF found = <<>> THEN first
    ELSE remember(dict_setdefault(first, Head(found)[2], Head(found)[1]),
                  Tail(found))

Lookup(op, target, converter, before, found, first) ==
    [op |-> op, target |-> target, converter |-> converter,
     before |-> before, found |-> found, first |-> first]

InitLookups ==
    /\ CONVERTERS = default_string_converters
    /\ last = Lookup("none", Leaf("int"), None, <<>>, <<>>, <<>>)
    /\ call = NotCalled
    /\ ret = NotCalled
    /\ csv = IdleCsv
    /\ IdleProcess
    /\ IdleThreads
    /\ IdleSource

lookup_effect(target, resolved) ==
    /\ CONVERTERS' = resolved.registry
    /\ last' = Lookup("converters", target, None, CONVERTERS,
                      resolved.converters,
                      remember(last.first, resolved.converters))

\* string_parser.converters(target)
Lookup_converters ==
    /\ \E target \in LookupTargets :
          lookup_effect(target, converters(CONVERTERS, target))
    /\ UNCHANGED <<call, ret, csv, process_vars, thread_vars, source_io>>

\* string_parser.set_converter(target, converter=converter)
Lookup_set_converter ==
    /\ \E target \in LookupTargets, converter \in UserConverters :
          /\ CONVERTERS' = set_converter(CONVERTERS, target, converter)
          /\ last' = Lookup("set_converter", target, converter, CONVERTERS,
                            <<>>, last.first)
    /\ UNCHANGED <<call, ret, csv, process_vars, thread_vars, source_io>>

NextLookups ==
    \/ Lookup_converters
    \/ Lookup_set_converter

SpecLookups == InitLookups /\ [][NextLookups]_vars

Returned(converter, type) ==
    /\ last.op = "converters"
    /\ \E k \in 1..Len(last.found) : last.found[k] = <<converter, type>>

\* C16 as stated: once converters() has returned a converter for a type,
\* every later converters() call returns that converter for the type.
C16_ResolvedOnceForAll ==
    last.op = "converters" =>
        \A k \in 1..Len(last.found) :
            last.found[k][1] = last.first[last.found[k][2]]

\* C16 amended: an entry is never removed; converters() returns for a type
\* with an entry that entry, attempts discovery
\* only for a type without one, leaves the registry with the entry it
\* returned and replaces no entry; an entry changes only by a
\* set_converter call whose target names its type.
C16_EntriesChangeOnlyBySetConverter ==
    [][/\ DOMAIN CONVERTERS \subseteq DOMAIN CONVERTERS'
       /\ last'.op = "converters" =>
             /\ \A t \in DOMAIN CONVERTERS : CONVERTERS'[t] = CONVERTERS[t]
             /\ \A k \in 1..Len(last'.found) :
                   /\ CONVERTERS'[last'.found[k][2]] = last'.found[k][1]
                   /\ last'.found[k][2] \in DOMAIN CONVERTERS =>
                         last'.found[k][1] = CONVERTERS[last'.found[k][2]]
                   /\ last'.found[k][2] \notin DOMAIN CONVERTERS =>
                         last'.found[k][1] = "from_string"
       /\ last'.op = "set_converter" =>
             \A t \in DOMAIN CONVERTERS \ LeafNames(last'.target) :
                 CONVERTERS'[t] = CONVERTERS[t]]_vars

\* a later lookup of FromMethod, which an earlier lookup had discovered:
\* the entry is there and from_string is returned again
C16_Witness ==
    /\ last.op = "converters"
    /\ "FromMethod" \in DOMAIN last.before
    /\ last.before["FromMethod"] = "from_string"
    /\ last.first["FromMethod"] = "from_string"
    /\ Returned("from_string", "FromMethod")
    /\ CONVERTERS["FromMethod"] = "from_string"

(***************************************************************************)
(* Further properties of csv_load (checked under SpecCsv).                 *)
(***************************************************************************)
\* no column names are given and the source has no row to read them from
NoHeaderToRead(args) == ~args.column_names.some /\ args.rows = <<>>

\* C17 as stated: a target type that is not a dataclass makes the load
\* fail with NotADataclassError before any row is produced, for every source.
C17_NotADataclassAlwaysRaises ==
    (csv.args.dataclass = "NotDC" /\ csv.pc # "created") =>
        /\ csv.pc = "raised"
        /\ csv.error = "NotADataclassError"
        /\ csv.yielded = <<>>

\* C17 amended: the same for every source but one: when no column names
\* are given and the source is empty, the load ends before the target is
\* looked at, without a record and without an error.
C17_NotADataclassRaisesOnceHeaderIsKnown ==
    (csv.args.dataclass = "NotDC" /\ csv.pc # "created") =>
        /\ csv.yielded = <<>>
        /\ ~NoHeaderToRead(csv.args) =>
              csv.pc = "raised" /\ csv.error = "NotADataclassError"
        /\ NoHeaderToRead(csv.args) =>
              csv.pc = "done" /\ csv.error = None

\* a source with data rows, a mapping that leaves columns unconsumed with
\* subsetting disallowed, and a target that is not a dataclass: the target
\* is what the load fails on
C17_Witness ==
    /\ csv.args.dataclass = "NotDC"
    /\ Len(DataRowsOf(csv.args)) = 2
    /\ ~csv.args.allow_column_subset
    /\ csv.args.field_to_column_name = Some(<<<<"x", "a">>, <<"y", "q">>>>)
    /\ csv.pc = "raised"
    /\ csv.error = "NotADataclassError"

\* the data rows the generator has taken from the reader
RowsTaken == csv.pos - first_data_position(csv.args.column_names.some)

\* the conversions of a row exhaust the converters of one of its fields
ConversionExhausted(row) ==
    /\ build_kwargs(row, csv.fields, <<>>).kind = "raise"
    /\ build_kwargs(row, csv.fields, <<>>).exc = "StringParserError"

\* C18: when the conversion of a field exhausts its converters at data row
\* k, the iteration raises the conversion error at that row: the records of
\* the rows before it have been yielded and are the records of those rows,
\* no record is yielded for row k, the construction function is not called
\* for row k, and no later row is taken.
C18_ConversionErrorEndsLoadAtRow ==
    /\ \A k \in 1..Len(DataRowsOf(csv.args)) :
          (/\ csv.resolved
           /\ RowsTaken >= k
           /\ ConversionExhausted(DataRowsOf(csv.args)[k])) =>
              /\ csv.pc = "raised"
              /\ csv.error = "StringParserError"
              /\ RowsTaken = k
              /\ Len(csv.yielded) = k - 1
              /\ csv.init_calls = k - 1
              /\ \A i \in 1..(k - 1) :
                    csv.yielded[i] = RecordOf(DataRowsOf(csv.args)[i],
                                              csv.fields, csv.init_function)
    /\ csv.error = "StringParserError" =>
          /\ RowsTaken \in 1..Len(DataRowsOf(csv.args))
          /\ ConversionExhausted(DataRowsOf(csv.args)[RowsTaken])

\* the first data row gave a record, the second has x where an int is read
C18_Witness ==
    /\ csv.error = "StringParserError"
    /\ DataRowsOf(csv.args) = <<<<"1", "2", "3">>, <<"x", "2", "z">>>>
    /\ csv.args.dataclass = "Rec"
    /\ Len(csv.yielded) = 1
    /\ csv.init_calls = 1
    /\ RowsTaken = 2

(***************************************************************************)
(* SpecSource: one csv_load generator and the stream it reads.  open_text  *)
(* is entered by the first next(); its with block is left when the         *)
(* generator returns, raises or is closed.  A file object that nothing     *)
(* refers to any more may be closed by its finalizer, at a time the        *)
(* interpreter chooses.                                                    *)
(***************************************************************************)
SourceKinds == {"Path", "TextIO", "str"}

\* the stream before csv_load runs: a caller's TextIO is open already
Stream(kind, state, opened_by, closed_by) ==
    [kind |-> kind, state |-> state, opened_by |-> opened_by,
     closed_by |-> closed_by]
source_given(kind) ==
    IF kind = "TextIO" THEN Stream(kind, "open", "caller", None)
    ELSE Stream(kind, "unopened", None, None)

\* open_text up to its yield: source.open() for a Path, a StringIO for a
\* str or a list, the caller's stream itself for a TextIO
open_text(stream) ==
    IF stream.kind = "TextIO" THEN stream
    ELSE Stream(stream.kind, "open", "loader", None)

\* open_text after its yield, when the with block is left: the function
\* ends, no branch closes the stream
open_text_exit(stream) == stream

\* the stream when the generator has got to where frame is
stream_after(frame, stream) ==
    IF frame.pc \in {"done", "raised"} THEN open_text_exit(stream) ELSE stream

SourceLoads ==
    {[rows |-> <<<<"a", "b">>>> \o data, column_names |-> Nothing,
      field_to_column_name |-> Nothing, dataclass |-> dataclass,
      init_function |-> init_function, allow_column_subset |-> TRUE] :
        data \in RowSeqs(MaxRows),
        dataclass \in {None, "Rec"},
        init_function \in {None, "make"}}

InitSource ==
    /\ \E args \in SourceLoads : csv = csv_created(args)
    /\ \E kind \in SourceKinds : source_io = source_given(kind)
    /\ CONVERTERS = default_string_converters
    /\ last = IdleLast
    /\ call = NotCalled
    /\ ret = NotCalled
    /\ IdleProcess
    /\ IdleThreads

source_first_effect(setup, opened) ==
    /\ csv_first_effect(setup)
    /\ source_io' = stream_after(csv_started(csv_entered(csv, setup), setup),
                                 opened)

\* the first next(): open_text is entered, the setup runs, then the first row
Source_first_next ==
    /\ csv.pc = "created"
    /\ source_first_effect(csv_setup(csv.args, CONVERTERS),
                           open_text(source_io))
    /\ UNCHANGED <<call, ret, last, process_vars, thread_vars>>

\* a later next()
Source_next ==
    /\ csv.pc = "suspended"
    /\ csv' = csv_advance(csv)
    /\ source_io' = stream_after(csv_advance(csv), source_io)
    /\ UNCHANGED <<call, ret, last, CONVERTERS, process_vars, thread_vars>>

\* the consumer stops iterating and closes the generator: GeneratorExit is
\* raised at the yield and the with block is left
Source_close ==
    /\ csv.pc = "suspended"
    /\ csv' = [csv EXCEPT !.pc = "closed"]
    /\ source_io' = open_text_exit(source_io)
    /\ UNCHANGED <<call, ret, last, CONVERTERS, process_vars, thread_vars>>

\* the consumer stops iterating and keeps or drops the suspended generator
Source_abandon ==
    /\ csv.pc = "suspended"
    /\ csv' = [csv EXCEPT !.pc = "abandoned"]
    /\ UNCHANGED <<call, ret, last, CONVERTERS, source_io, process_vars,
                   thread_vars>>

\* the interpreter finalizes the file object the loader opened, once the
\* generator no longer runs; when it does so is not the loader's choice
Source_finalize ==
    /\ csv.pc \in {"done", "raised", "closed", "abandoned"}
    /\ source_io.opened_by = "loader"
    /\ source_io.state = "open"
    /\ source_io' = Stream(source_io.kind, "closed", "loader", "finalizer")
    /\ UNCHANGED <<call, ret, last, CONVERTERS, csv, process_vars,
                   thread_vars>>

NextSource ==
    \/ Source_first_next
    \/ Source_next
    \/ Source_close
    \/ Source_abandon
    \/ Source_finalize

SpecSource == InitSource /\ [][NextSource]_vars

\* C19: the file handle csv_load opened for a Path source is released once
\* the sequence is exhausted or fails or the consumer stops iterating, and
\* a stream the caller supplied is never closed by the loader.
C19_OwnedHandleReleased ==
    /\ (/\ source_io.kind = "Path"
        /\ csv.pc \in {"done", "raised", "closed", "abandoned"}) =>
           source_io.state = "closed"
    /\ source_io.kind = "TextIO" => source_io.state = "open"

\* what holds of the code: the loader closes no stream, the caller's
\* included
C19_LoaderClosesNothing ==
    /\ source_io.closed_by # "loader"
    /\ source_io.kind = "TextIO" => source_io.state = "open"

(***************************************************************************)
(* SpecLoad: one csv_load generator on a registry that set_converter calls *)
(* change while the load is under way.  last keeps the registry as it was  *)
(* when the setup of the load ran, and how many records the load had       *)
(* yielded at the latest registration.                                     *)
(***************************************************************************)
LoadTargets == {Leaf("int"), Leaf("str")}

LoadNote(op, before, registered_at) ==
    [op |-> op, before |-> before, registered_at |-> registered_at]

InitLoad ==
    /\ \E args \in SourceLoads : csv = csv_created(args)
    /\ CONVERTERS = default_string_converters
    /\ last = LoadNote("none", <<>>, -1)
    /\ call = NotCalled
    /\ ret = NotCalled
    /\ IdleProcess
    /\ IdleThreads
    /\ IdleSource

\* the first next(): the setup resolves the fields against the registry
Load_first_next ==
    /\ csv.pc = "created"
    /\ csv_first_effect(csv_setup(csv.args, CONVERTERS))
    /\ last' = LoadNote("csv_load", CONVERTERS, last.registered_at)
    /\ UNCHANGED <<call, ret, process_vars, thread_vars, source_io>>

\* the plausible slip: the chains are looked up again for every row
load_next_rebinding(frame, registry) ==
    csv_advance([frame EXCEPT !.fields = csv_setup(frame.args, registry).fields])
\* a later next(): the row is converted with the chains of the frame
load_next(frame, registry) == csv_advance(frame)

Load_next ==
    /\ csv.pc = "suspended"
    /\ csv' = load_next(csv, CONVERTERS)
    /\ UNCHANGED <<call, ret, last, CONVERTERS, process_vars, thread_vars,
                   source_io>>

\* string_parser.set_converter(target, converter=converter) by the consumer
Load_set_converter ==
    /\ csv.pc \in {"created", "suspended"}
    /\ \E target \in LoadTargets, converter \in UserConverters :
          CONVERTERS' = set_converter(CONVERTERS, target, converter)
    /\ last' = LoadNote(last.op, last.before, Len(csv.yielded))
    /\ UNCHANGED <<call, ret, csv, process_vars, thread_vars, source_io>>

NextLoad ==
    \/ Load_first_next
    \/ Load_next
    \/ Load_set_converter

SpecLoad == InitLoad /\ [][NextLoad]_vars

\* the fields as the setup resolved them
FieldsAtSetup == csv_setup(csv.args, last.before).fields

\* C20: the field mapping and the converter chain of each field are
\* resolved once per load and stay as they are: whatever set_converter
\* does to the registry afterwards, the fields of the load are those its
\* setup resolved, and every record is built with them.
C20_ChainsFixedAtSetup ==
    csv.resolved =>
        /\ csv.fields = FieldsAtSetup
        /\ \A i \in 1..Len(csv.yielded) :
              csv.yielded[i] = RecordOf(DataRowsOf(csv.args)[i], FieldsAtSetup,
                                        csv.init_function)

\* after the first record a converter that always fails was registered for
\* int; the second record was still built with int
C20_Witness ==
    /\ csv.pc = "done"
    /\ csv.args.dataclass = "Rec"
    /\ Len(csv.yielded) = 2
    /\ last.registered_at = 1
    /\ last.before["int"] = "int"
    /\ CONVERTERS["int"] = "fail_conv"
    /\ csv.yielded[2].kwargs[1] = <<"a", Value("int", "1")>>

(***************************************************************************)
(* SpecDrop: one csv_load generator whose field mapping may name columns   *)
(* the source does not have.  The steps are those of SpecCsv; the          *)
(* arguments drawn in Init include a dataclass with a field whose type     *)
(* brings its own from_string, so that resolving the converters of that    *)
(* field leaves an entry in the registry.                                  *)
(***************************************************************************)
DropHeaders == {<<"a">>, <<"m">>, <<"a", "m">>, <<"a", "b">>, <<"b">>}
DropMappings ==
    {Nothing,
     Some(<<<<"x", "a">>, <<"y", "q">>>>),
     Some(<<<<"m", "q">>, <<"a", "a">>>>),
     Some(<<<<"y", "q">>>>)}

DropArgs ==
    {[rows |-> rows, column_names |-> column_names,
      field_to_column_name |-> mapping, dataclass |-> dataclass,
      init_function |-> init_function, allow_column_subset |-> allow] :
        rows \in RowSeqs(MaxRows),
        column_names \in {Some(h) : h \in DropHeaders},
        mapping \in DropMappings,
        dataclass \in {None, "Rec", "Tagged"},
        init_function \in {None, "make"},
        allow \in BOOLEAN}
    \cup
    {[rows |-> rows, column_names |-> Nothing,
      field_to_column_name |-> mapping, dataclass |-> dataclass,
      init_function |-> init_function, allow_column_subset |-> allow] :
        rows \in {<<>>} \cup {<<h>> \o data : h \in DropHeaders,
                                              data \in RowSeqs(MaxRows)},
        mapping \in DropMappings,
        dataclass \in {None, "Rec", "Tagged"},
        init_function \in {None, "make"},
        allow \in BOOLEAN}

InitDrop ==
    /\ \E args \in DropArgs :
          csv = [pc |-> "created", args |-> args, pos |-> 1,
                 column_names |-> <<>>, fields |-> <<>>,
                 init_function |-> None, resolved |-> FALSE,
                 yielded |-> <<>>, error |-> None, init_calls |-> 0]
    /\ CONVERTERS = default_string_converters
    /\ last = IdleLast
    /\ call = NotCalled
    /\ ret = NotCalled
    /\ IdleProcess
    /\ IdleThreads
    /\ IdleSource

SpecDrop == InitDrop /\ [][NextCsv]_vars

\* the field -> column items the load works with: the mapping given, else
\* the parameters of the construction function under their own names, else
\* the fields of the dataclass under their csv_key, else the columns
MappingItems ==
    IF truthy(csv.args.field_to_column_name)
    THEN csv.args.field_to_column_name.v
    ELSE IF csv.args.init_function # None
    THEN LET names == signature_parameters(CallableNamed(csv.args.init_function))
         IN  [i \in 1..Len(names) |-> <<names[i], names[i]>>]
    ELSE IF csv.args.dataclass # None
    THEN LET names == signature_parameters(CallableNamed(csv.args.dataclass))
         IN  [i \in 1..Len(names) |->
                 <<names[i], metadata_get(csv.args.dataclass, names[i])>>]
    ELSE items_from(<<>>, [i \in 1..Len(csv.column_names) |->
                              <<csv.column_names[i], csv.column_names[i]>>])

ColumnExists(item) ==
    \E i \in 1..Len(csv.column_names) : csv.column_names[i] = item[2]
\* the fields whose mapped column name does not occur in the column names
DroppedFields ==
    {MappingItems[i][1] : i \in {j \in 1..Len(MappingItems) :
                                    ~ColumnExists(MappingItems[j])}}
\* the items whose column exists, in the order of the mapping
ExistingItems == SelectSeq(MappingItems, ColumnExists)
ExistingFields == [i \in 1..Len(ExistingItems) |-> ExistingItems[i][1]]

\* the declared type of a field: the hint of the construction function, else
\* of the dataclass, and str for a field neither declares
DeclaredTypeName(field_name) ==
    LET owner == IF csv.args.init_function # None THEN csv.args.init_function
                 ELSE csv.args.dataclass
        hints == IF owner = None THEN <<>>
                 ELSE get_callable_argument_hints(CallableNamed(owner))
    IN  IF field_name \in DOMAIN hints THEN hints[field_name].t ELSE "str"

\* a row ended the load before the construction function was called
RowFailedBeforeCall == csv.error \in {"StringParserError", "IndexError"}

\* C21: a field whose mapped column name does not occur in the source's
\* column names is dropped without error: the retained fields are exactly
\* the fields whose column exists, each read at an index of its column; the
\* construction function is called for every row taken whose cells convert,
\* with keyword arguments for exactly those fields; the load raises only
\* what a load without the dropped field raises (a row that fails, the
\* construction function's own TypeError for these keywords, or the
\* column-subset error for a column left unconsumed when subsets are not
\* allowed); and the registry gains an entry only for the type of a
\* retained field, so no converter chain was resolved for a dropped one.
C21_DroppedFieldsAreNoError ==
    (csv.resolved /\ DroppedFields # {}) =>
        /\ [j \in 1..Len(csv.fields) |-> csv.fields[j].name] = ExistingFields
        /\ \A j \in 1..Len(csv.fields) :
              csv.column_names[csv.fields[j].index] = ExistingItems[j][2]
        /\ \A name \in DroppedFields :
              \A j \in 1..Len(csv.fields) : csv.fields[j].name # name
        /\ \A i \in 1..Len(csv.yielded) :
              [j \in 1..Len(csv.yielded[i].kwargs) |->
                  csv.yielded[i].kwargs[j][1]] = ExistingFields
        /\ csv.init_calls = RowsTaken - (IF RowFailedBeforeCall THEN 1 ELSE 0)
        /\ csv.pc = "done" => csv.init_calls = Len(DataRowsOf(csv.args))
        /\ csv.error \in {None, "StringParserError", "IndexError", "TypeError",
                          "UnconsumedColumnsError"}
        /\ csv.error = "TypeError" =>
              /\ RowsTaken >= 1
              /\ call_init(csv.init_function,
                           [j \in 1..Len(ExistingFields) |->
                               <<ExistingFields[j], None>>]).kind = "raise"
        /\ csv.error = "UnconsumedColumnsError" =>
              /\ ~csv.args.allow_column_subset
              /\ \E i \in 1..Len(csv.column_names) : i \notin ConsumedIndices
              /\ RowsTaken = 0
        /\ DOMAIN CONVERTERS \ DOMAIN default_string_converters =
              {t \in {DeclaredTypeName(ExistingFields[j]) :
                         j \in 1..Len(ExistingFields)} :
                  has_from_string(Leaf(t))}

\* Tagged is loaded from a source with the one column a: its field m, of a
\* type with from_string, is dropped; both rows were built with a alone and
\* the registry holds no entry for the type of m
C21_Witness ==
    /\ csv.pc = "done"
    /\ csv.args.dataclass = "Tagged"
    /\ csv.args.init_function = None
    /\ ~csv.args.field_to_column_name.some
    /\ csv.column_names = <<"a">>
    /\ DroppedFields = {"m"}
    /\ Len(csv.yielded) = 2
    /\ csv.init_calls = 2
    /\ csv.yielded[2].kwargs = <<<<"a", Value("int", "1")>>>>
    /\ "FromMethod" \notin DOMAIN CONVERTERS

====
